---------------------------- MODULE Spec2Model ----------------------------
(***************************************************************************)
(* The calibration trial state machine of BCIController (controller.py)    *)
(* with its two data handlers (calibration_data_handler.py,                *)
(* eeg_data_handler.py), the EEG device's stream worker (eeg_device.py)    *)
(* and the Tobii gaze callback (tobii_handler.py).                         *)
(*                                                                         *)
(* The Tk event loop runs start_calibration, stop_calibration, the         *)
(* setters and update() one at a time, so each of them is one action.      *)
(* The gaze callback and the EEG stream worker run on their own threads    *)
(* and are split into the steps between which the event loop can run.  A   *)
(* thread that runs in the middle of a handler finds the buffers as they   *)
(* are before or after one of the handler's rebindings, which are the      *)
(* cases the thread's steps before and after the whole handler give.       *)
(*                                                                         *)
(* Next is the whole machine.  SpecStart, SpecCleanup, SpecPointer,        *)
(* SpecGaze, SpecTrial, SpecSource, SpecControl, SpecDwell, SpecTiming,    *)
(* SpecProducers, SpecRestart, SpecRounds, SpecSwitch, SpecAgain and       *)
(* SpecStream are the same actions under an environment that leaves part   *)
(* of the inputs alone, so that their state spaces can be searched to the  *)
(* end;                                                                    *)
(* FairDwellRun is an eye-tracker run with ticks and a clock that keep     *)
(* coming.  SpecHandlers is the two data handlers under a caller of their  *)
(* own, on a machine that can crash; SpecWrite is the EEG handler with     *)
(* save_circle_data taken in two steps, the with block and the write.      *)
(*                                                                         *)
(* Time is counted in units of 0.5 s.  The code reads its two clocks only  *)
(* as differences (now - calibration_start_time, controller.py:478, and    *)
(* now - tobii_focus_start_time, controller.py:513); the model keeps the   *)
(* differences, elapsed and dwell.                                         *)
(*                                                                         *)
(* Python's None is "none" for a phase, 0 for a circle and NoTime for a    *)
(* time stamp.                                                             *)
(***************************************************************************)
EXTENDS Integers, Sequences, FiniteSets, TLC

\* ------------------------------------------------------------------ bounds

\* The program has 8 stimulus circles (range(8), range(1, 9), >= 8, <= 8 in
\* controller.py:311, 334, 345, 566, 573); the model runs it with NumCircles.
NumCircles == 2

\* calibration_rounds ranges over 0..MaxRounds.
MaxRounds == 2

\* Samples delivered by the input sources are numbered 1..MaxSamples.
MaxSamples == 1

\* start_calibration is called at most MaxStarts times in a behaviour.
MaxStarts == 2

\* At most MaxWorkers stream worker threads exist at a time.
MaxWorkers == 2

\* The clock stops advancing when a phase has lasted MaxElapsed units.
MaxElapsed == 6

\* A caller that drives the data handlers by itself hands them samples numbered
\* 1..MaxFed and calls save_circle_data at most MaxSaves times.
MaxFed == 2

MaxSaves == 2

\* The time stamps such a caller puts on its samples: it chooses them freely, so
\* that a later sample may carry an earlier time stamp.
Timestamps == 1..MaxFed

\* ------------------------------------------------------- program constants

\* 1.5 seconds
TOBII_FOCUS_DURATION == 3

EEG_CHANNEL_COUNT == 32

DOT_MOVE_TRIGGER_PERCENT == 83

PHASE_TESTING == "Testing Phase"

PHASE_CALIBRATION == "Calibration Phase"

PHASE_START == "Start Phase"

PHASES == {PHASE_TESTING, PHASE_CALIBRATION, PHASE_START}

INPUT_MODE_MOUSE == "Mouse Cursor"

INPUT_MODE_TOBII == "Tobii Eye Tracker"

INPUT_MODE_EEG == "EEG Headset"

INPUT_MODES == {INPUT_MODE_MOUSE, INPUT_MODE_TOBII, INPUT_MODE_EEG}

\* [1.0, 1.5, 2.0, 2.5, 3.0, 3.5, 4.0, 5.0] seconds
FOCUS_TIME_OPTIONS == {2, 3, 4, 5, 6, 7, 8, 10}

\* [0.5, 1.0, 1.5, 2.0, 2.5, 3.0] seconds
GAP_TIME_OPTIONS == {1, 2, 3, 4, 5, 6}

\* 3.0 seconds
DEFAULT_FOCUS_TIME == 6

\* 2.0 seconds
DEFAULT_GAP_TIME == 4

DEFAULT_CALIBRATION_ROUNDS == 5

\* _stream_worker gives up after this many errors in a row
max_errors == 10

NoTime == -1

Circles == 1..NumCircles

BufferNames == {"starting_rest", "focus", "ending_rest"}

\* What the file system does to one save_circle_data: every call succeeds; open
\* raises and nothing is written; or the line is written and flushed and os.fsync
\* raises, so that the line is in the file and not on stable storage.
IoResults == {"ok", "open_fails", "fsync_fails"}

\* The file system without the failing fsync.
IoPlain == {"ok", "open_fails"}

\* ------------------------------------------------------------------- state

VARIABLES
    \* BCIController
    current_phase, input_mode, allow_without_hardware,
    focus_time, gap_time, calibration_rounds,
    calibration_active, calibration_sequence, current_calibration_index,
    elapsed,
    is_in_starting_rest, is_in_focus_phase, is_in_ending_rest,
    circles_completed_in_round, total_calibrations_done,
    eeg_current_circle_number, eeg_circle_repetition,
    dwell, tobii_currently_focused_circle,
    \* CalibrationDataHandler, EEGDataHandler, GNautilusDevice, TobiiHandler
    calibration_handler, eeg_handler, eeg_device, tobii,
    \* the files of eye_calibration/<user>/ and eeg_calibration/<user>/, and how
    \* many lines of each are on stable storage
    eye_files, eeg_files, synced,
    \* the producer threads
    gaze, workers,
    mouse_xy,
    \* the environment and the observer
    hardware, next_sample, starts, last, statuses, flushes, arrivals

ctrl_vars == <<current_phase, input_mode, allow_without_hardware,
               focus_time, gap_time, calibration_rounds,
               calibration_active, calibration_sequence, current_calibration_index,
               elapsed,
               is_in_starting_rest, is_in_focus_phase, is_in_ending_rest,
               circles_completed_in_round, total_calibrations_done,
               eeg_current_circle_number, eeg_circle_repetition,
               dwell, tobii_currently_focused_circle, mouse_xy>>

run_vars == <<calibration_active, calibration_sequence, current_calibration_index,
              elapsed,
              is_in_starting_rest, is_in_focus_phase, is_in_ending_rest,
              circles_completed_in_round, total_calibrations_done,
              eeg_current_circle_number, eeg_circle_repetition,
              dwell, tobii_currently_focused_circle>>

handler_vars == <<calibration_handler, eeg_handler, eeg_device, tobii>>

file_vars == <<eye_files, eeg_files, synced>>

thread_vars == <<gaze, workers>>

obs_vars == <<hardware, next_sample, starts, last, statuses, flushes, arrivals>>

vars == <<ctrl_vars, handler_vars, file_vars, thread_vars, obs_vars>>


\* ------------------------------------------------- CalibrationDataHandler

\* CalibrationDataHandler.__init__
ch_init ==
    [current_calibration_index |-> 1, current_circle |-> 0, current_phase |-> "none",
     starting_rest_data |-> <<>>, focus_data |-> <<>>, ending_rest_data |-> <<>>]

\* CalibrationDataHandler.increment_session_number
ch_increment_session_number(h) ==
    [h EXCEPT !.current_calibration_index = @ + 1]

\* CalibrationDataHandler.start_circle_collection (start_circle_focus is its alias)
ch_start_circle_collection(h, circle_id, phase) ==
    [h EXCEPT !.current_circle = circle_id,
              !.current_phase = phase,
              !.starting_rest_data = IF phase = "starting_rest" THEN <<>> ELSE @,
              !.focus_data = IF phase = "starting_rest" THEN <<>> ELSE @,
              !.ending_rest_data = IF phase = "starting_rest" THEN <<>> ELSE @]

\* CalibrationDataHandler.log_gaze_data run from its first statement to its last
\* with no other thread in between.
ch_log_gaze_data(h, sample, circle_id) ==
    IF h.current_phase = "none" \/ h.current_circle # circle_id THEN h
    ELSE CASE h.current_phase = "starting_rest" ->
                 [h EXCEPT !.starting_rest_data = Append(@, sample)]
           [] h.current_phase = "focus" ->
                 [h EXCEPT !.focus_data = Append(@, sample)]
           [] h.current_phase = "ending_rest" ->
                 [h EXCEPT !.ending_rest_data = Append(@, sample)]
           [] OTHER -> h

\* The entry CalibrationDataHandler.save_circle_data builds: its meta holds a time
\* stamp and the data type only.
ch_entry(h) ==
    [calibration_index |-> h.current_calibration_index,
     circle |-> h.current_circle,
     starting_rest |-> h.starting_rest_data,
     focus |-> h.focus_data,
     ending_rest |-> h.ending_rest_data]

\* CalibrationDataHandler.save_circle_data.  io is what the file system does to
\* open, write, flush and os.fsync (IoResults).  The result holds the handler
\* afterwards, the lines appended (none or one) and the value returned: True
\* when no statement of the with block raised.
ch_save_circle_data(h, io) ==
    IF h.current_circle = 0
    THEN [handler |-> h, tried |-> <<>>, lines |-> <<>>, ret |-> FALSE]
    ELSE [handler |-> [h EXCEPT !.starting_rest_data = <<>>,
                                !.focus_data = <<>>,
                                !.ending_rest_data = <<>>],
          tried |-> <<ch_entry(h)>>,
          lines |-> IF io = "open_fails" THEN <<>> ELSE <<ch_entry(h)>>,
          ret |-> io = "ok"]

\* A variant of end_circle_focus that saves only a circle that has focus samples.
ch_end_circle_focus_nonempty(h, io) ==
    LET saved == IF h.current_circle # 0 /\ h.focus_data # <<>>
                 THEN ch_save_circle_data(h, io)
                 ELSE [handler |-> h, tried |-> <<>>, lines |-> <<>>, ret |-> FALSE]
    IN  [saved EXCEPT !.handler = [@ EXCEPT !.current_circle = 0,
                                            !.current_phase = "none"]]

\* CalibrationDataHandler.end_circle_focus
ch_end_circle_focus(h, io) ==
    LET saved == IF h.current_circle # 0
                 THEN ch_save_circle_data(h, io)
                 ELSE [handler |-> h, tried |-> <<>>, lines |-> <<>>, ret |-> FALSE]
    IN  [saved EXCEPT !.handler = [@ EXCEPT !.current_circle = 0,
                                            !.current_phase = "none"]]

\* --------------------------------------------------------- EEGDataHandler

\* EEGDataHandler.__init__ (gap_time = 2.0 and focus_time = 4.0 seconds); exists is
\* FALSE while controller.eeg_handler is None.  lock is self._lock: "free", or the
\* method whose thread holds it between two steps.  entry holds the local `entry`
\* of a call of save_circle_data that has left its with block and has not yet
\* written, for the specifications that take the call in two steps.
eh_none ==
    [exists |-> FALSE, channel_count |-> EEG_CHANNEL_COUNT,
     current_calibration_index |-> 1, current_circle |-> 0, current_phase |-> "none",
     starting_rest_data |-> <<>>, focus_data |-> <<>>, ending_rest_data |-> <<>>,
     gap_time |-> 4, focus_time |-> 8,
     lock |-> "free", entry |-> <<>>]

eh_init(channel_count) ==
    [eh_none EXCEPT !.exists = TRUE, !.channel_count = channel_count]

\* EEGDataHandler.set_timing_parameters
eh_set_timing_parameters(h, gap, focus) ==
    [h EXCEPT !.gap_time = gap, !.focus_time = focus]

\* A variant of start_calibration_index that keeps the index the handler has.
eh_start_calibration_index_kept(h, calibration_index) == h

\* EEGDataHandler.start_calibration_index
eh_start_calibration_index(h, calibration_index) ==
    [h EXCEPT !.current_calibration_index = calibration_index]

\* EEGDataHandler.start_circle_collection
eh_start_circle_collection(h, circle_number) ==
    [h EXCEPT !.current_circle = circle_number,
              !.starting_rest_data = <<>>,
              !.focus_data = <<>>,
              !.ending_rest_data = <<>>,
              !.current_phase = "none"]

\* EEGDataHandler.set_phase
eh_set_phase(h, phase) ==
    [h EXCEPT !.current_phase = phase]

\* A variant of add_sample that does not look at the number of channels.
eh_add_sample_unchecked(h, sample) ==
    IF h.current_phase = "none" \/ h.current_circle = 0 THEN h
    ELSE LET formatted_sample == [id |-> sample.id, t |-> sample.t, ch |-> sample.channels]
         IN  CASE h.current_phase = "starting_rest" ->
                    [h EXCEPT !.starting_rest_data = Append(@, formatted_sample)]
               [] h.current_phase = "focus" ->
                    [h EXCEPT !.focus_data = Append(@, formatted_sample)]
               [] h.current_phase = "ending_rest" ->
                    [h EXCEPT !.ending_rest_data = Append(@, formatted_sample)]
               [] OTHER -> h

\* A variant of add_sample that keeps each buffer ordered by time stamp.
eh_add_sample_by_timestamp(h, sample) ==
    IF h.current_phase = "none" \/ h.current_circle = 0 THEN h
    ELSE IF sample.channels # h.channel_count THEN h
    ELSE LET formatted_sample == [id |-> sample.id, t |-> sample.t, ch |-> sample.channels]
             placed(buffer) ==
                 SelectSeq(buffer, LAMBDA x : x.t <= sample.t) \o <<formatted_sample>>
                    \o SelectSeq(buffer, LAMBDA x : x.t > sample.t)
         IN  CASE h.current_phase = "starting_rest" ->
                    [h EXCEPT !.starting_rest_data = placed(@)]
               [] h.current_phase = "focus" ->
                    [h EXCEPT !.focus_data = placed(@)]
               [] h.current_phase = "ending_rest" ->
                    [h EXCEPT !.ending_rest_data = placed(@)]
               [] OTHER -> h

\* EEGDataHandler.add_sample, the whole of it under the lock
eh_add_sample(h, sample) ==
    IF h.current_phase = "none" \/ h.current_circle = 0 THEN h
    ELSE IF sample.channels # h.channel_count THEN h
    ELSE LET formatted_sample == [id |-> sample.id, t |-> sample.t, ch |-> sample.channels]
         IN  CASE h.current_phase = "starting_rest" ->
                    [h EXCEPT !.starting_rest_data = Append(@, formatted_sample)]
               [] h.current_phase = "focus" ->
                    [h EXCEPT !.focus_data = Append(@, formatted_sample)]
               [] h.current_phase = "ending_rest" ->
                    [h EXCEPT !.ending_rest_data = Append(@, formatted_sample)]
               [] OTHER -> h

\* The entry EEGDataHandler.save_circle_data builds
eh_entry(h) ==
    [calibration_index |-> h.current_calibration_index,
     circle |-> h.current_circle,
     channel_count |-> h.channel_count,
     starting_rest |-> h.starting_rest_data,
     focus |-> h.focus_data,
     ending_rest |-> h.ending_rest_data,
     gap_time |-> h.gap_time,
     focus_time |-> h.focus_time]

\* EEGDataHandler.cleanup
eh_cleanup(h) ==
    [h EXCEPT !.current_circle = 0,
              !.current_phase = "none",
              !.starting_rest_data = <<>>,
              !.focus_data = <<>>,
              !.ending_rest_data = <<>>]

\* A variant of save_circle_data that keeps the trial for a later try when the
\* write fails.
eh_save_circle_data_keep_failed(h, io) ==
    IF h.current_circle = 0 \/ io # "ok"
    THEN [handler |-> h,
          tried |-> IF h.current_circle = 0 THEN <<>> ELSE <<eh_entry(h)>>,
          lines |-> <<>>, ret |-> FALSE]
    ELSE [handler |-> [h EXCEPT !.starting_rest_data = <<>>,
                                !.focus_data = <<>>,
                                !.ending_rest_data = <<>>,
                                !.current_circle = 0,
                                !.current_phase = "none"],
          tried |-> <<eh_entry(h)>>,
          lines |-> <<eh_entry(h)>>,
          ret |-> TRUE]

\* EEGDataHandler.save_circle_data
eh_save_circle_data(h, io) ==
    IF h.current_circle = 0
    THEN [handler |-> h, tried |-> <<>>, lines |-> <<>>, ret |-> FALSE]
    ELSE [handler |-> [h EXCEPT !.starting_rest_data = <<>>,
                                !.focus_data = <<>>,
                                !.ending_rest_data = <<>>,
                                !.current_circle = 0,
                                !.current_phase = "none"],
          tried |-> <<eh_entry(h)>>,
          lines |-> IF io = "open_fails" THEN <<>> ELSE <<eh_entry(h)>>,
          ret |-> io = "ok"]

\* A variant of save_circle_data that keeps the lock until it has written.
lock_kept_for_write == "save_circle_data"

\* The lock when save_circle_data has left its with block, before it opens the
\* file.
lock_after_with == "free"

\* EEGDataHandler.save_circle_data, its with block: the entry is built, the
\* buffers, the circle and the phase are cleared.
eh_save_circle_data_with(h) ==
    IF h.current_circle = 0 THEN h
    ELSE [h EXCEPT !.starting_rest_data = <<>>,
                   !.focus_data = <<>>,
                   !.ending_rest_data = <<>>,
                   !.current_circle = 0,
                   !.current_phase = "none",
                   !.entry = <<eh_entry(h)>>,
                   !.lock = lock_after_with]

\* EEGDataHandler.save_circle_data, its try block: the entry is written.
eh_save_circle_data_write(h, io) ==
    [handler |-> [h EXCEPT !.entry = <<>>, !.lock = "free"],
     tried |-> h.entry,
     lines |-> IF io = "open_fails" THEN <<>> ELSE h.entry,
     ret |-> io = "ok"]

\* A variant that opens the file with 'w': the line replaces what the file held.
overwrite_lines(files, lines) ==
    IF lines = <<>> THEN files
    ELSE [files EXCEPT ![lines[1].calibration_index] = <<lines[1]>>]

\* open(filepath, 'a'): the lines are appended to the file named by their
\* calibration_index.
append_lines(files, lines) ==
    IF lines = <<>> THEN files
    ELSE [files EXCEPT ![lines[1].calibration_index] = Append(@, lines[1])]

\* A variant of save_circle_data that leaves os.fsync out.
not_fsynced(count, files, res) == count

\* os.fsync(f.fileno()): when save_circle_data got as far as returning True, all
\* of the file it appended to is on stable storage.  count is the number of
\* synced lines per file, files the files after the append.
fsynced(count, files, res) ==
    IF res.ret
    THEN [count EXCEPT ![res.tried[1].calibration_index] =
                           Len(files[res.tried[1].calibration_index])]
    ELSE count


\* -------------------------------------- GNautilusDevice and its stream worker

\* controller.eeg_device is None while exists is FALSE.  stream_thread is the
\* worker start_stream started last, 0 for none.
dev_none ==
    [exists |-> FALSE, connected |-> FALSE, is_streaming |-> FALSE,
     stop_event |-> FALSE, stream_thread |-> 0]

\* GNautilusDevice.__init__ followed by a connect() that succeeds
dev_connected ==
    [dev_none EXCEPT !.exists = TRUE, !.connected = TRUE]

\* A worker thread: dead, at the head of its loop (poll), or inside the callback
\* between the test of BCIController._on_eeg_sample and add_sample (cb) with the
\* sample it carries.  orphan: its device object was dropped by set_input_mode.
\* error_count: the read errors since the last batch that was read.
worker_dead ==
    [pc |-> "dead", sample |-> [id |-> 0, t |-> 0, channels |-> 0], orphan |-> FALSE,
     error_count |-> 0]

WorkerIds == 1..MaxWorkers

\* What a worker does when it runs to the end of its loop: the sample it carries
\* is added, then the loop condition fails and the thread ends.
worker_finish(h, w) ==
    IF w.pc = "cb" THEN eh_add_sample(h, w.sample) ELSE h

\* GNautilusDevice.stop_stream.  joined says whether join(timeout=2.0) saw the
\* worker end; otherwise the worker is left behind alive.
dev_stop_stream(dev, wk, h, joined) ==
    IF ~dev.is_streaming
    THEN [device |-> dev, workers |-> wk, handler |-> h]
    ELSE LET t == dev.stream_thread
             alive == t # 0 /\ wk[t].pc # "dead"
         IN  [device |-> [dev EXCEPT !.is_streaming = FALSE, !.stop_event = TRUE],
              workers |-> IF alive /\ joined
                          THEN [wk EXCEPT ![t] = worker_dead]
                          ELSE wk,
              handler |-> IF alive /\ joined THEN worker_finish(h, wk[t]) ELSE h]

\* GNautilusDevice.disconnect: stop_stream when streaming, then the device is
\* given up and _connected is False.
dev_disconnect(dev, wk, h, joined) ==
    LET r == dev_stop_stream(dev, wk, h, joined)
    IN  [r EXCEPT !.device = [@ EXCEPT !.connected = FALSE]]

\* GNautilusDevice.start_stream: refused when not connected or already streaming,
\* otherwise a new worker thread is started.
dev_can_start_stream(dev) ==
    dev.connected /\ dev.exists /\ ~dev.is_streaming

dev_start_stream(dev, wk, slot) ==
    [device |-> [dev EXCEPT !.is_streaming = TRUE, !.stop_event = FALSE,
                            !.stream_thread = slot],
     workers |-> [wk EXCEPT ![slot] = [worker_dead EXCEPT !.pc = "poll"]]]

\* The workers left behind when the controller drops its device object: their
\* device's is_streaming stays False, so one at the loop head ends and one inside
\* the callback ends after its add_sample.
orphaned(wk) ==
    [i \in WorkerIds |->
        IF wk[i].pc = "cb" THEN [wk[i] EXCEPT !.orphan = TRUE] ELSE worker_dead]

\* ------------------------------------------------------------ TobiiHandler

\* The gaze callback thread: idle, or inside CalibrationDataHandler.log_gaze_data
\* before its guard (log), before the test of current_phase (dispatch), before it
\* reads the buffer attribute (load), or before list.append (append).  stale: the
\* handler has rebound the buffer attribute since the thread read it.
gaze_idle ==
    [pc |-> "idle", sample |-> [id |-> 0, t |-> 0], circle_id |-> 0, buffer |-> "none",
     stale |-> FALSE]

\* self.starting_rest_data = [] and the like rebind the attributes: a thread that
\* already holds the old list appends to a list nobody reads.
rebound(g) ==
    IF g.pc = "append" THEN [g EXCEPT !.stale = TRUE] ELSE g


\* --------------------------------------------------------- BCIController

\* A variant of Shuffles: random.choices(range(8), k=8), which draws with
\* repetition.
Choices == [1..NumCircles -> 0..(NumCircles - 1)]

\* random.shuffle(list(range(8))): every ordering of the circle indexes 0..7
Shuffles ==
    {p \in [1..NumCircles -> 0..(NumCircles - 1)] :
        \A i, j \in 1..NumCircles : i # j => p[i] # p[j]}

\* for _ in range(calibration_rounds): seq = shuffled; calibration_sequence.extend(seq)
RECURSIVE shuffled_sequences(_)
shuffled_sequences(rounds) ==
    IF rounds <= 0 THEN {<<>>}
    ELSE {s \o p : s \in shuffled_sequences(rounds - 1), p \in Shuffles}

\* for circle_num in range(1, 9): for _ in range(rounds): append(circle_num - 1)
RECURSIVE eeg_sequence_from(_, _)
eeg_sequence_from(circle_num, rounds) ==
    IF circle_num > NumCircles THEN <<>>
    ELSE [i \in 1..rounds |-> circle_num - 1] \o eeg_sequence_from(circle_num + 1, rounds)

\* A variant of eeg_sequence with the two loops exchanged:
\* for _ in range(rounds): for circle_num in range(1, 9)
RECURSIVE eeg_sequence_by_round(_)
eeg_sequence_by_round(rounds) ==
    IF rounds <= 0 THEN <<>>
    ELSE [i \in 1..NumCircles |-> i - 1] \o eeg_sequence_by_round(rounds - 1)

eeg_sequence(rounds) == eeg_sequence_from(1, rounds)

\* The phase the controller's flags say a running calibration is in.
controller_phase ==
    IF ~calibration_active THEN "none"
    ELSE IF is_in_starting_rest THEN "starting_rest"
    ELSE IF is_in_focus_phase THEN "focus"
    ELSE IF is_in_ending_rest THEN "ending_rest"
    ELSE "none"

no_arrivals ==
    [starting_rest |-> <<>>, focus |-> <<>>, ending_rest |-> <<>>]

\* The observer's notes.  starts: how many times start_calibration went past its
\* refusals, and calibration_rounds as it was the last time.  arrivals: the samples
\* the input source handed over in each phase of the trial in progress.  flushes:
\* the save_circle_data calls of the run in progress that built an entry.  last:
\* the handler the event loop ran last and how it ended.  statuses: the levels
\* that handler passed to _update_status.
arrived(log, sample) ==
    IF controller_phase = "none" THEN log
    ELSE [log EXCEPT ![controller_phase] = Append(@, sample)]

\* The observer's note of a save_circle_data that tried to write an entry.
flush_note(by, res) ==
    IF res.tried = <<>> THEN <<>>
    ELSE <<[by |-> by, trial |-> current_calibration_index, ok |-> res.ret,
            entry |-> res.tried[1], delivered |-> arrivals]>>

EyeFileIds == 1..(MaxStarts * MaxRounds + 1)

EegFileIds == 1..NumCircles

Init ==
    /\ current_phase = PHASE_TESTING
    /\ input_mode = INPUT_MODE_MOUSE
    /\ allow_without_hardware = FALSE
    /\ focus_time = DEFAULT_FOCUS_TIME
    /\ gap_time = DEFAULT_GAP_TIME
    /\ calibration_rounds = DEFAULT_CALIBRATION_ROUNDS
    /\ calibration_active = FALSE
    /\ calibration_sequence = <<>>
    /\ current_calibration_index = 0
    /\ elapsed = 0
    /\ is_in_starting_rest = FALSE
    /\ is_in_focus_phase = FALSE
    /\ is_in_ending_rest = FALSE
    /\ circles_completed_in_round = 0
    /\ total_calibrations_done = 0
    /\ eeg_current_circle_number = 1
    /\ eeg_circle_repetition = 0
    /\ dwell = NoTime
    /\ tobii_currently_focused_circle = 0
    /\ mouse_xy = 0
    /\ calibration_handler = ch_init
    /\ eeg_handler = eh_none
    /\ eeg_device = dev_none
    /\ tobii = [running |-> FALSE]
    /\ eye_files = [f \in EyeFileIds |-> <<>>]
    /\ eeg_files = [f \in EegFileIds |-> <<>>]
    /\ synced = [eye |-> [f \in EyeFileIds |-> 0], eeg |-> [f \in EegFileIds |-> 0]]
    /\ gaze = gaze_idle
    /\ workers = [w \in WorkerIds |-> worker_dead]
    /\ hardware \in [tobii : BOOLEAN, eeg : BOOLEAN]
    /\ next_sample = 1
    /\ starts = [n |-> 0, rounds |-> 0]
    /\ last = [op |-> "init", ret |-> "none"]
    /\ statuses = <<>>
    /\ flushes = <<>>
    /\ arrivals = no_arrivals

\* A variant of phase_refused that lets the testing phase pass.
phase_refused_start_only == current_phase = PHASE_START

\* if self.current_phase != PHASE_CALIBRATION (controller.py:270)
phase_refused == current_phase # PHASE_CALIBRATION

\* A variant of hardware_refused that never refuses.
hardware_never_refused == FALSE

\* if not self.allow_without_hardware: if the hardware is missing (275-279, 321-325)
hardware_refused ==
    /\ ~allow_without_hardware
    /\ \/ input_mode = INPUT_MODE_EEG /\ ~(eeg_device.exists /\ eeg_device.connected)
       \/ input_mode = INPUT_MODE_TOBII /\ ~hardware.tobii

\* The sequences start_calibration can build for the input mode, for
\* calibration_rounds up to MaxRounds.
calibration_sequences ==
    IF calibration_rounds > MaxRounds THEN {}
    ELSE IF input_mode = INPUT_MODE_EEG
    THEN {eeg_sequence(calibration_rounds)}
    ELSE shuffled_sequences(calibration_rounds)

\* The statements of start_calibration from "self.calibration_active = True" on
\* (controller.py:349-384).  h is the EEG handler as the EEG branch left it.
\* calibration_sequence[0] raises IndexError on an empty sequence; otherwise the
\* handler is set up for the first circle and then EEG_ACTION_INSTRUCTIONS, which
\* config.py does not define (EEG), or self._hide_main_ui(), where the method is
\* named _hide_main_UI (mouse, Tobii), raises: the call never returns True and
\* never sends its "Calibration Started" status.
begin_run(seq, h) ==
    /\ calibration_sequence' = seq
    /\ calibration_active' = TRUE
    /\ current_calibration_index' = 0
    /\ circles_completed_in_round' = 0
    /\ is_in_starting_rest' = TRUE
    /\ is_in_focus_phase' = FALSE
    /\ is_in_ending_rest' = FALSE
    /\ elapsed' = 0
    /\ dwell' = NoTime
    /\ tobii_currently_focused_circle' = 0
    /\ IF seq = <<>>
       THEN /\ eeg_handler' = h
            /\ UNCHANGED <<calibration_handler, gaze>>
       ELSE IF input_mode = INPUT_MODE_EEG
       THEN /\ eeg_handler' =
                   eh_set_phase(eh_start_circle_collection(h, seq[1] + 1), "starting_rest")
            /\ UNCHANGED <<calibration_handler, gaze>>
       ELSE /\ calibration_handler' =
                   ch_start_circle_collection(calibration_handler, seq[1] + 1, "starting_rest")
            /\ gaze' = rebound(gaze)
            /\ eeg_handler' = h
    /\ statuses' = <<>>
    /\ last' = [op |-> "start_calibration", ret |-> "raised"]
    /\ starts' = [n |-> starts.n + 1, rounds |-> calibration_rounds]
    /\ flushes' = <<>>
    /\ arrivals' = no_arrivals

\* BCIController.start_calibration.  acq_ok: device.StartAcquisition() succeeds;
\* slot: the thread start_stream starts.  The model follows the calls made with
\* calibration_rounds up to MaxRounds.
start_calibration(seq, acq_ok, slot) ==
    /\ starts.n < MaxStarts
    /\ calibration_rounds <= MaxRounds
    /\ seq \in calibration_sequences
    /\ workers[slot].pc = "dead"
    /\ UNCHANGED <<current_phase, input_mode, allow_without_hardware, focus_time,
                   gap_time, calibration_rounds, total_calibrations_done, mouse_xy,
                   tobii, file_vars, hardware, next_sample>>
    /\ IF phase_refused
       THEN /\ statuses' = <<"error">>
            /\ last' = [op |-> "start_calibration", ret |-> "False"]
            /\ UNCHANGED <<run_vars, calibration_handler, eeg_handler, eeg_device,
                           thread_vars, starts, flushes, arrivals>>
       ELSE IF hardware_refused
       THEN /\ statuses' = <<"error">>
            /\ last' = [op |-> "start_calibration", ret |-> "False"]
            /\ UNCHANGED <<run_vars, calibration_handler, eeg_handler, eeg_device,
                           thread_vars, starts, flushes, arrivals>>
       ELSE IF input_mode = INPUT_MODE_EEG
       THEN LET h1 == IF eeg_handler.exists THEN eeg_handler
                      ELSE eh_init(EEG_CHANNEL_COUNT)
                present == eeg_device.exists /\ eeg_device.connected
                can == dev_can_start_stream(eeg_device)
                started == dev_start_stream(eeg_device, workers, slot)
                dev1 == IF can /\ acq_ok THEN started.device
                        ELSE IF can THEN [eeg_device EXCEPT !.stop_event = FALSE]
                        ELSE eeg_device
                wk1 == IF can /\ acq_ok THEN started.workers ELSE workers
                h2 == eh_start_calibration_index(
                          eh_set_timing_parameters(h1, gap_time, focus_time), 1)
            IN  /\ eeg_device' = dev1
                /\ workers' = wk1
                /\ IF present /\ ~(can /\ acq_ok) /\ ~allow_without_hardware
                   THEN /\ eeg_handler' = h1
                        /\ statuses' = <<"error">>
                        /\ last' = [op |-> "start_calibration", ret |-> "False"]
                        /\ UNCHANGED <<run_vars, calibration_handler, gaze, starts,
                                       flushes, arrivals>>
                   ELSE /\ eeg_current_circle_number' = 1
                        /\ eeg_circle_repetition' = 0
                        /\ begin_run(seq, h2)
       ELSE /\ UNCHANGED <<eeg_device, workers, eeg_current_circle_number,
                           eeg_circle_repetition>>
            /\ begin_run(seq, eeg_handler)

\* A variant of the stop that ends the pointer handler's trial whatever the
\* input mode is and leaves the EEG device streaming.
stop_effect_pointer_only(io, joined) ==
    LET r == ch_end_circle_focus(calibration_handler, io)
        written == append_lines(eye_files, r.lines)
    IN  [calibration_handler |-> r.handler,
         gaze |-> IF r.tried = <<>> THEN gaze ELSE rebound(gaze),
         eye_files |-> written,
         synced |-> [synced EXCEPT !.eye = fsynced(@, written, r)],
         flushes |-> flushes \o flush_note("stop", r),
         eeg_device |-> eeg_device, workers |-> workers, eeg_handler |-> eeg_handler]

\* What stop_calibration does once it has found calibration_active set
\* (controller.py:390-407).
stop_effect(io, joined) ==
    IF input_mode = INPUT_MODE_EEG
    THEN LET r == IF eeg_device.exists
                  THEN dev_stop_stream(eeg_device, workers, eeg_handler, joined)
                  ELSE [device |-> eeg_device, workers |-> workers, handler |-> eeg_handler]
         IN  [calibration_handler |-> calibration_handler, gaze |-> gaze,
              eye_files |-> eye_files, synced |-> synced, flushes |-> flushes,
              eeg_device |-> r.device, workers |-> r.workers, eeg_handler |-> r.handler]
    ELSE LET r == ch_end_circle_focus(calibration_handler, io)
             written == append_lines(eye_files, r.lines)
         IN  [calibration_handler |-> r.handler,
              gaze |-> IF r.tried = <<>> THEN gaze ELSE rebound(gaze),
              eye_files |-> written,
              synced |-> [synced EXCEPT !.eye = fsynced(@, written, r)],
              flushes |-> flushes \o flush_note("stop", r),
              eeg_device |-> eeg_device, workers |-> workers, eeg_handler |-> eeg_handler]

\* BCIController.stop_calibration
stop_calibration(io, joined) ==
    /\ last' = [op |-> "stop_calibration", ret |-> "None"]
    /\ UNCHANGED <<current_phase, input_mode, allow_without_hardware, focus_time,
                   gap_time, calibration_rounds, calibration_sequence,
                   current_calibration_index, elapsed, is_in_starting_rest,
                   is_in_focus_phase, is_in_ending_rest, circles_completed_in_round,
                   total_calibrations_done, eeg_current_circle_number,
                   eeg_circle_repetition, dwell, tobii_currently_focused_circle,
                   mouse_xy, tobii, eeg_files, hardware, next_sample, starts, arrivals>>
    /\ IF ~calibration_active
       THEN /\ statuses' = <<>>
            /\ UNCHANGED <<calibration_active, calibration_handler, eeg_handler,
                           eeg_device, eye_files, synced, thread_vars, flushes>>
       ELSE LET r == stop_effect(io, joined)
            IN  /\ calibration_active' = FALSE
                /\ calibration_handler' = r.calibration_handler
                /\ gaze' = r.gaze
                /\ eye_files' = r.eye_files
                /\ synced' = r.synced
                /\ flushes' = r.flushes
                /\ eeg_device' = r.eeg_device
                /\ workers' = r.workers
                /\ eeg_handler' = r.eeg_handler
                /\ statuses' = <<"warning">>

\* BCIController.set_phase
set_phase(phase, io, joined) ==
    /\ phase \in PHASES
    /\ current_phase' = phase
    /\ last' = [op |-> "set_phase", ret |-> "None"]
    /\ UNCHANGED <<input_mode, allow_without_hardware, focus_time,
                   gap_time, calibration_rounds, calibration_sequence,
                   current_calibration_index, elapsed, is_in_starting_rest,
                   is_in_focus_phase, is_in_ending_rest, circles_completed_in_round,
                   total_calibrations_done, eeg_current_circle_number,
                   eeg_circle_repetition, dwell, tobii_currently_focused_circle,
                   mouse_xy, tobii, eeg_files, hardware, next_sample, starts, arrivals>>
    /\ IF ~calibration_active
       THEN /\ statuses' = <<"info">>
            /\ UNCHANGED <<calibration_active, calibration_handler, eeg_handler,
                           eeg_device, eye_files, synced, thread_vars, flushes>>
       ELSE LET r == stop_effect(io, joined)
            IN  /\ calibration_active' = FALSE
                /\ calibration_handler' = r.calibration_handler
                /\ gaze' = r.gaze
                /\ eye_files' = r.eye_files
                /\ synced' = r.synced
                /\ flushes' = r.flushes
                /\ eeg_device' = r.eeg_device
                /\ workers' = r.workers
                /\ eeg_handler' = r.eeg_handler
                /\ statuses' = <<"warning", "info">>

\* BCIController.set_focus_time
set_focus_time(t) ==
    /\ t \in FOCUS_TIME_OPTIONS
    /\ focus_time' = t
    /\ eeg_handler' = IF eeg_handler.exists
                      THEN eh_set_timing_parameters(eeg_handler, gap_time, t)
                      ELSE eeg_handler
    /\ last' = [op |-> "set_focus_time", ret |-> "None"]
    /\ statuses' = <<>>
    /\ UNCHANGED <<current_phase, input_mode, allow_without_hardware, gap_time,
                   calibration_rounds, run_vars, mouse_xy, calibration_handler,
                   eeg_device, tobii, file_vars, thread_vars, hardware, next_sample,
                   starts, flushes, arrivals>>

\* BCIController.set_gap_time
set_gap_time(t) ==
    /\ t \in GAP_TIME_OPTIONS
    /\ gap_time' = t
    /\ eeg_handler' = IF eeg_handler.exists
                      THEN eh_set_timing_parameters(eeg_handler, t, focus_time)
                      ELSE eeg_handler
    /\ last' = [op |-> "set_gap_time", ret |-> "None"]
    /\ statuses' = <<>>
    /\ UNCHANGED <<current_phase, input_mode, allow_without_hardware, focus_time,
                   calibration_rounds, run_vars, mouse_xy, calibration_handler,
                   eeg_device, tobii, file_vars, thread_vars, hardware, next_sample,
                   starts, flushes, arrivals>>

\* BCIController.set_calibration_rounds
set_calibration_rounds(r) ==
    /\ r \in 0..MaxRounds
    /\ calibration_rounds' = r
    /\ last' = [op |-> "set_calibration_rounds", ret |-> "None"]
    /\ statuses' = <<>>
    /\ UNCHANGED <<current_phase, input_mode, allow_without_hardware, focus_time,
                   gap_time, run_vars, mouse_xy, handler_vars, file_vars, thread_vars,
                   hardware, next_sample, starts, flushes, arrivals>>

\* BCIController.cleanup: the eye tracker stops, the EEG device is disconnected
\* (the object and input_mode stay), the EEG handler is emptied.  A running
\* calibration is not stopped.
cleanup(joined) ==
    LET r == IF eeg_device.exists
             THEN dev_disconnect(eeg_device, workers, eeg_handler, joined)
             ELSE [device |-> eeg_device, workers |-> workers, handler |-> eeg_handler]
    IN  /\ tobii' = [running |-> FALSE]
        /\ eeg_device' = r.device
        /\ workers' = r.workers
        /\ eeg_handler' = IF r.handler.exists THEN eh_cleanup(r.handler) ELSE r.handler
        /\ last' = [op |-> "cleanup", ret |-> "None"]
        /\ statuses' = <<>>
        /\ UNCHANGED <<ctrl_vars, calibration_handler, file_vars, gaze, hardware,
                       next_sample, starts, flushes, arrivals>>

\* BCIController.set_allow_without_hardware
set_allow_without_hardware(allow) ==
    /\ allow \in BOOLEAN
    /\ allow_without_hardware' = allow
    /\ last' = [op |-> "set_allow_without_hardware", ret |-> "None"]
    /\ statuses' = <<IF allow THEN "warning" ELSE "info">>
    /\ UNCHANGED <<current_phase, input_mode, focus_time, gap_time,
                   calibration_rounds, run_vars, mouse_xy, handler_vars, file_vars,
                   thread_vars, hardware, next_sample, starts, flushes, arrivals>>

\* BCIController.set_input_mode, with hardware_status_callback wired as main.py
\* wires it (main.py:103, 597-604): a call with True switches
\* allow_without_hardware off.  A running calibration is stopped first, with the
\* old input mode; the old source is shut down; the new one is tried, and the mode
\* falls back to the mouse when its hardware is missing.
set_input_mode(mode, io, joined) ==
    LET r == IF calibration_active
             THEN stop_effect(io, joined)
             ELSE [calibration_handler |-> calibration_handler, gaze |-> gaze,
                   eye_files |-> eye_files, synced |-> synced, flushes |-> flushes,
                   eeg_device |-> eeg_device, workers |-> workers,
                   eeg_handler |-> eeg_handler]
        s == IF input_mode = INPUT_MODE_EEG /\ r.eeg_device.exists
             THEN dev_stop_stream(r.eeg_device, r.workers, r.eeg_handler, joined)
             ELSE [device |-> r.eeg_device, workers |-> r.workers,
                   handler |-> r.eeg_handler]
        dropped == input_mode = INPUT_MODE_EEG /\ r.eeg_device.exists
        wk == IF dropped THEN orphaned(s.workers) ELSE s.workers
        dev == IF dropped THEN dev_none ELSE s.device
        found == \/ mode = INPUT_MODE_MOUSE
                 \/ mode = INPUT_MODE_TOBII /\ hardware.tobii
                 \/ mode = INPUT_MODE_EEG /\ hardware.eeg
        stopped == IF calibration_active THEN <<"warning">> ELSE <<>>
    IN  /\ mode \in INPUT_MODES
        /\ calibration_active' = FALSE
        /\ calibration_handler' = r.calibration_handler
        /\ gaze' = r.gaze
        /\ eye_files' = r.eye_files
        /\ synced' = r.synced
        /\ flushes' = r.flushes
        /\ workers' = wk
        /\ tobii' = [running |-> mode = INPUT_MODE_TOBII /\ hardware.tobii]
        /\ input_mode' = IF found THEN mode ELSE INPUT_MODE_MOUSE
        /\ eeg_device' = IF mode = INPUT_MODE_EEG
                         THEN (IF hardware.eeg THEN dev_connected ELSE dev_none)
                         ELSE dev
        /\ eeg_handler' = IF mode = INPUT_MODE_EEG /\ hardware.eeg /\ ~s.handler.exists
                          THEN eh_init(EEG_CHANNEL_COUNT)
                          ELSE s.handler
        /\ allow_without_hardware' = IF found THEN FALSE ELSE allow_without_hardware
        /\ statuses' = stopped \o
                       (IF ~found THEN <<"error">>
                        ELSE IF mode = INPUT_MODE_MOUSE THEN <<"info", "info">>
                        ELSE <<"success", "info">>)
        /\ last' = [op |-> "set_input_mode", ret |-> "None", mode |-> mode]
        /\ UNCHANGED <<current_phase, focus_time, gap_time, calibration_rounds,
                       calibration_sequence, current_calibration_index, elapsed,
                       is_in_starting_rest, is_in_focus_phase, is_in_ending_rest,
                       circles_completed_in_round, total_calibrations_done,
                       eeg_current_circle_number, eeg_circle_repetition, dwell,
                       tobii_currently_focused_circle, mouse_xy, eeg_files, hardware,
                       next_sample, starts, arrivals>>

\* calibration_sequence[current_calibration_index] raises IndexError
index_error ==
    ~(current_calibration_index + 1 \in 1..Len(calibration_sequence))

\* The circle index calibration_sequence[current_calibration_index]
current_target == calibration_sequence[current_calibration_index + 1]

\* The dot animation of the focus phase (controller.py:511-529) raises: in Tobii
\* mode, once the gaze has dwelt TOBII_FOCUS_DURATION, on the sequence lookup or
\* on the division by focus_time - TOBII_FOCUS_DURATION; in the other modes, once
\* elapsed has passed focus_time * DOT_MOVE_TRIGGER_RATIO, on the sequence lookup.
focus_animation_raises ==
    IF input_mode = INPUT_MODE_TOBII
    THEN /\ dwell # NoTime
         /\ dwell >= TOBII_FOCUS_DURATION
         /\ (index_error \/ focus_time - TOBII_FOCUS_DURATION = 0)
    ELSE /\ elapsed * 100 >= focus_time * DOT_MOVE_TRIGGER_PERCENT
         /\ index_error

\* update(), starting rest (controller.py:481-504)
update_starting_rest ==
    /\ UNCHANGED <<calibration_active, calibration_sequence, current_calibration_index,
                   is_in_ending_rest, circles_completed_in_round,
                   total_calibrations_done, eeg_current_circle_number,
                   eeg_circle_repetition, dwell, tobii_currently_focused_circle,
                   eeg_device, file_vars, thread_vars, flushes, arrivals>>
    /\ statuses' = <<>>
    /\ IF elapsed >= gap_time
       THEN /\ is_in_starting_rest' = FALSE
            /\ is_in_focus_phase' = TRUE
            /\ elapsed' = 0
            /\ IF index_error
               THEN /\ last' = [op |-> "update", ret |-> "raised"]
                    /\ UNCHANGED <<calibration_handler, eeg_handler>>
               ELSE /\ last' = [op |-> "update", ret |-> "None"]
                    /\ IF input_mode = INPUT_MODE_EEG
                       THEN /\ eeg_handler' = eh_set_phase(eeg_handler, "focus")
                            /\ UNCHANGED calibration_handler
                       ELSE /\ calibration_handler' =
                                   ch_start_circle_collection(calibration_handler,
                                                              current_target + 1, "focus")
                            /\ UNCHANGED eeg_handler
       ELSE /\ last' = [op |-> "update", ret |-> "None"]
            /\ UNCHANGED <<is_in_starting_rest, is_in_focus_phase, elapsed,
                           calibration_handler, eeg_handler>>

\* A variant of the focus branch that leaves the focus phase on its first tick.
update_focus_untimed ==
    /\ UNCHANGED <<calibration_active, calibration_sequence, current_calibration_index,
                   is_in_starting_rest, circles_completed_in_round,
                   total_calibrations_done, eeg_current_circle_number,
                   eeg_circle_repetition, calibration_handler, eeg_handler,
                   eeg_device, file_vars, thread_vars, flushes, arrivals>>
    /\ statuses' = <<>>
    /\ IF focus_animation_raises
       THEN /\ last' = [op |-> "update", ret |-> "raised"]
            /\ UNCHANGED <<is_in_focus_phase, is_in_ending_rest, elapsed, dwell,
                           tobii_currently_focused_circle>>
       ELSE IF TRUE
       THEN /\ is_in_focus_phase' = FALSE
            /\ is_in_ending_rest' = TRUE
            /\ elapsed' = 0
            /\ dwell' = NoTime
            /\ tobii_currently_focused_circle' = 0
            /\ last' = [op |-> "update", ret |-> "raised"]
       ELSE /\ last' = [op |-> "update", ret |-> "None"]
            /\ UNCHANGED <<is_in_focus_phase, is_in_ending_rest, elapsed, dwell,
                           tobii_currently_focused_circle>>

\* A variant of the focus branch that enters the ending rest without leaving the
\* focus phase.
update_focus_flag_kept ==
    /\ UNCHANGED <<calibration_active, calibration_sequence, current_calibration_index,
                   is_in_starting_rest, circles_completed_in_round,
                   total_calibrations_done, eeg_current_circle_number,
                   eeg_circle_repetition, calibration_handler, eeg_handler,
                   eeg_device, file_vars, thread_vars, flushes, arrivals>>
    /\ statuses' = <<>>
    /\ IF focus_animation_raises
       THEN /\ last' = [op |-> "update", ret |-> "raised"]
            /\ UNCHANGED <<is_in_focus_phase, is_in_ending_rest, elapsed, dwell,
                           tobii_currently_focused_circle>>
       ELSE IF elapsed >= focus_time
       THEN /\ is_in_focus_phase' = TRUE
            /\ is_in_ending_rest' = TRUE
            /\ elapsed' = 0
            /\ dwell' = NoTime
            /\ tobii_currently_focused_circle' = 0
            /\ last' = [op |-> "update", ret |-> "raised"]
       ELSE /\ last' = [op |-> "update", ret |-> "None"]
            /\ UNCHANGED <<is_in_focus_phase, is_in_ending_rest, elapsed, dwell,
                           tobii_currently_focused_circle>>

\* update(), focus (controller.py:507-548).  The transition to the ending rest
\* sets the flags and the phase start, then self._hide_main_ui() raises
\* AttributeError (the method is named _hide_main_UI): the handler is not told of
\* the new phase.
update_focus ==
    /\ UNCHANGED <<calibration_active, calibration_sequence, current_calibration_index,
                   is_in_starting_rest, circles_completed_in_round,
                   total_calibrations_done, eeg_current_circle_number,
                   eeg_circle_repetition, calibration_handler, eeg_handler,
                   eeg_device, file_vars, thread_vars, flushes, arrivals>>
    /\ statuses' = <<>>
    /\ IF focus_animation_raises
       THEN /\ last' = [op |-> "update", ret |-> "raised"]
            /\ UNCHANGED <<is_in_focus_phase, is_in_ending_rest, elapsed, dwell,
                           tobii_currently_focused_circle>>
       ELSE IF elapsed >= focus_time
       THEN /\ is_in_focus_phase' = FALSE
            /\ is_in_ending_rest' = TRUE
            /\ elapsed' = 0
            /\ dwell' = NoTime
            /\ tobii_currently_focused_circle' = 0
            /\ last' = [op |-> "update", ret |-> "raised"]
       ELSE /\ last' = [op |-> "update", ret |-> "None"]
            /\ UNCHANGED <<is_in_focus_phase, is_in_ending_rest, elapsed, dwell,
                           tobii_currently_focused_circle>>

\* A variant of trial_index_after_flush that keeps the trial when its save failed.
trial_index_after_saved_flush(saved) ==
    IF saved.ret THEN current_calibration_index + 1 ELSE current_calibration_index

\* self.current_calibration_index += 1 (controller.py:582), whatever
\* save_circle_data returned: neither branch reads its result.
trial_index_after_flush(saved) == current_calibration_index + 1

\* A variant in which the tick that saves the last trial leaves the run active.
active_after_last_trial_kept == TRUE

\* self.calibration_active = False when the sequence is exhausted
\* (controller.py:584-585)
active_after_last_trial == FALSE

\* update(), ending rest (controller.py:551-631)
update_ending_rest(io, joined) ==
    IF elapsed < gap_time
    THEN /\ last' = [op |-> "update", ret |-> "None"]
         /\ statuses' = <<>>
         /\ UNCHANGED <<run_vars, handler_vars, file_vars, thread_vars, flushes, arrivals>>
    ELSE
    LET eeg == input_mode = INPUT_MODE_EEG
        saved == IF eeg THEN eh_save_circle_data(eeg_handler, io)
                 ELSE ch_end_circle_focus(calibration_handler, io)
        written == append_lines(IF eeg THEN eeg_files ELSE eye_files, saved.lines)
        \* EEG bookkeeping (556-567)
        rep1 == eeg_circle_repetition + 1
        rolled == rep1 >= calibration_rounds
        rep2 == IF rolled THEN 0 ELSE rep1
        num2 == IF rolled THEN eeg_current_circle_number + 1 ELSE eeg_current_circle_number
        eh1 == IF rolled /\ num2 <= NumCircles
               THEN eh_start_calibration_index(saved.handler, num2)
               ELSE saved.handler
        \* mouse and Tobii bookkeeping (568-580)
        done1 == circles_completed_in_round + 1
        block == done1 >= NumCircles
        ch1 == IF block THEN ch_increment_session_number(saved.handler) ELSE saved.handler
        index2 == trial_index_after_flush(saved)
        finished == index2 >= Len(calibration_sequence)
        circle_num == calibration_sequence[index2 + 1] + 1
        stopped == IF eeg /\ eeg_device.exists
                   THEN dev_stop_stream(eeg_device, workers, eh1, joined)
                   ELSE [device |-> eeg_device, workers |-> workers, handler |-> eh1]
    IN  /\ UNCHANGED <<calibration_sequence, is_in_focus_phase, dwell,
                       tobii_currently_focused_circle>>
        /\ current_calibration_index' = index2
        /\ flushes' = flushes \o flush_note("update", saved)
        /\ IF eeg
           THEN /\ eeg_files' = written
                /\ synced' = [synced EXCEPT !.eeg = fsynced(@, written, saved)]
                /\ eeg_circle_repetition' = rep2
                /\ eeg_current_circle_number' = num2
                /\ UNCHANGED <<eye_files, circles_completed_in_round,
                               total_calibrations_done>>
           ELSE /\ eye_files' = written
                /\ synced' = [synced EXCEPT !.eye = fsynced(@, written, saved)]
                /\ circles_completed_in_round' = IF block THEN 0 ELSE done1
                /\ total_calibrations_done' =
                       IF block THEN total_calibrations_done + 1 ELSE total_calibrations_done
                /\ UNCHANGED <<eeg_files, eeg_circle_repetition, eeg_current_circle_number>>
        /\ IF finished
           THEN /\ calibration_active' = active_after_last_trial
                /\ eeg_device' = stopped.device
                /\ workers' = stopped.workers
                /\ eeg_handler' = IF eeg THEN stopped.handler ELSE eeg_handler
                /\ calibration_handler' = IF eeg THEN calibration_handler ELSE ch1
                /\ gaze' = IF eeg \/ saved.tried = <<>> THEN gaze ELSE rebound(gaze)
                /\ statuses' = <<"success", "completion">>
                /\ last' = [op |-> "update", ret |-> "None"]
                /\ UNCHANGED <<is_in_starting_rest, is_in_ending_rest, elapsed, arrivals>>
           ELSE /\ is_in_ending_rest' = FALSE
                /\ is_in_starting_rest' = TRUE
                /\ elapsed' = 0
                /\ arrivals' = no_arrivals
                /\ UNCHANGED <<calibration_active, eeg_device, workers>>
                /\ IF eeg
                   THEN /\ eeg_handler' =
                               eh_set_phase(eh_start_circle_collection(eh1, circle_num),
                                            "starting_rest")
                        /\ UNCHANGED <<calibration_handler, gaze>>
                        \* EEG_ACTION_INSTRUCTIONS (615) is not defined: NameError
                        /\ statuses' = IF rep2 = 0 THEN <<>> ELSE <<"info">>
                        /\ last' = [op |-> "update",
                                    ret |-> IF rep2 = 0 THEN "raised" ELSE "None"]
                   ELSE /\ calibration_handler' =
                               ch_start_circle_collection(ch1, circle_num, "starting_rest")
                        /\ gaze' = rebound(gaze)
                        /\ UNCHANGED eeg_handler
                        /\ statuses' = <<"info">>
                        /\ last' = [op |-> "update", ret |-> "None"]

\* A variant of _animate without the try: a tick that raised is the last one.
animate_rescheduled_unless_raised(l) ==
    ~(l.op = "update" /\ l.ret = "raised")

\* BCIApplication._animate: "try: self.controller.update() except: pass", then
\* root.after(FRAME_TIME, self._animate).  l is the record of the last call the
\* event loop made: whatever it was and however it ended, the next tick is
\* scheduled.
animate_rescheduled(l) == TRUE

\* BCIController.update while a calibration is active: _update_calibration, one
\* branch per phase flag.  (Without an active calibration update() only animates.)
update(io, joined) ==
    /\ animate_rescheduled(last)
    /\ calibration_active
    /\ UNCHANGED <<current_phase, input_mode, allow_without_hardware, focus_time,
                   gap_time, calibration_rounds, mouse_xy, tobii, hardware,
                   next_sample, starts>>
    /\ IF is_in_starting_rest THEN update_starting_rest
       ELSE IF is_in_focus_phase THEN update_focus
       ELSE IF is_in_ending_rest THEN update_ending_rest(io, joined)
       ELSE /\ last' = [op |-> "update", ret |-> "None"]
            /\ statuses' = <<>>
            /\ UNCHANGED <<run_vars, handler_vars, file_vars, thread_vars, flushes, arrivals>>

\* time.time() moves on by one unit.  Only a running calibration reads the clock.
advance_time ==
    /\ calibration_active
    /\ elapsed < MaxElapsed
    /\ elapsed' = elapsed + 1
    /\ dwell' = IF dwell = NoTime THEN NoTime
                ELSE IF dwell < TOBII_FOCUS_DURATION THEN dwell + 1
                ELSE dwell
    /\ UNCHANGED <<current_phase, input_mode, allow_without_hardware, focus_time,
                   gap_time, calibration_rounds, calibration_active,
                   calibration_sequence, current_calibration_index,
                   is_in_starting_rest, is_in_focus_phase, is_in_ending_rest,
                   circles_completed_in_round, total_calibrations_done,
                   eeg_current_circle_number, eeg_circle_repetition,
                   tobii_currently_focused_circle, mouse_xy,
                   handler_vars, file_vars, thread_vars, obs_vars>>

\* ------------------------------------------------------ the input sources

\* A variant of on_mouse_move in which the arrival of a sample moves the phase
\* timer on.
on_mouse_move_counted ==
    /\ next_sample <= MaxSamples
    /\ mouse_xy' = next_sample
    /\ next_sample' = next_sample + 1
    /\ elapsed' = elapsed + 1
    /\ arrivals' = IF input_mode = INPUT_MODE_MOUSE
                   THEN arrived(arrivals, [id |-> next_sample, t |-> next_sample])
                   ELSE arrivals
    /\ last' = [op |-> "on_mouse_move", ret |-> "None"]
    /\ statuses' = <<>>
    /\ UNCHANGED <<current_phase, input_mode, allow_without_hardware, focus_time,
                   gap_time, calibration_rounds, calibration_active,
                   calibration_sequence, current_calibration_index,
                   is_in_starting_rest, is_in_focus_phase, is_in_ending_rest,
                   circles_completed_in_round, total_calibrations_done,
                   eeg_current_circle_number, eeg_circle_repetition,
                   dwell, tobii_currently_focused_circle, handler_vars, file_vars,
                   thread_vars, hardware, starts, flushes>>

\* BCIController.on_mouse_move, run by the event loop on a <Motion> event
on_mouse_move ==
    /\ next_sample <= MaxSamples
    /\ mouse_xy' = next_sample
    /\ next_sample' = next_sample + 1
    /\ arrivals' = IF input_mode = INPUT_MODE_MOUSE
                   THEN arrived(arrivals, [id |-> next_sample, t |-> next_sample])
                   ELSE arrivals
    /\ last' = [op |-> "on_mouse_move", ret |-> "None"]
    /\ statuses' = <<>>
    /\ UNCHANGED <<current_phase, input_mode, allow_without_hardware, focus_time,
                   gap_time, calibration_rounds, run_vars, handler_vars, file_vars,
                   thread_vars, hardware, starts, flushes>>

\* BCIController._on_gaze_update up to its call of log_gaze_data, on the Tobii
\* SDK's thread.  on_target: _check_gaze_on_stimulus finds the gaze on the glowing
\* circle.
on_gaze_update(on_target) ==
    /\ tobii.running
    /\ gaze.pc = "idle"
    /\ next_sample <= MaxSamples
    /\ next_sample' = next_sample + 1
    /\ arrivals' = arrived(arrivals, [id |-> next_sample, t |-> next_sample])
    /\ IF calibration_active /\ is_in_focus_phase /\ ~index_error
       THEN LET glowing_circle == current_target + 1
            IN  /\ IF on_target
                   THEN IF tobii_currently_focused_circle # glowing_circle
                        THEN /\ dwell' = 0
                             /\ tobii_currently_focused_circle' = glowing_circle
                        ELSE UNCHANGED <<dwell, tobii_currently_focused_circle>>
                   ELSE /\ dwell' = NoTime
                        /\ tobii_currently_focused_circle' = 0
                /\ gaze' = [gaze_idle EXCEPT !.pc = "log",
                                             !.sample = [id |-> next_sample, t |-> next_sample],
                                             !.circle_id = glowing_circle]
       ELSE UNCHANGED <<dwell, tobii_currently_focused_circle, gaze>>
    /\ UNCHANGED <<current_phase, input_mode, allow_without_hardware, focus_time,
                   gap_time, calibration_rounds, calibration_active,
                   calibration_sequence, current_calibration_index, elapsed,
                   is_in_starting_rest, is_in_focus_phase, is_in_ending_rest,
                   circles_completed_in_round, total_calibrations_done,
                   eeg_current_circle_number, eeg_circle_repetition, mouse_xy,
                   handler_vars, file_vars, workers, hardware, starts, last,
                   statuses, flushes>>

\* CalibrationDataHandler.log_gaze_data, its guard (line 111)
log_gaze_data_guard ==
    /\ gaze.pc = "log"
    /\ gaze' = IF \/ calibration_handler.current_phase = "none"
                  \/ calibration_handler.current_circle # gaze.circle_id
               THEN gaze_idle
               ELSE [gaze EXCEPT !.pc = "dispatch"]
    /\ UNCHANGED <<ctrl_vars, handler_vars, file_vars, workers, obs_vars>>

\* CalibrationDataHandler.log_gaze_data, the tests of current_phase (124-128)
log_gaze_data_dispatch ==
    /\ gaze.pc = "dispatch"
    /\ gaze' = IF calibration_handler.current_phase \in BufferNames
               THEN [gaze EXCEPT !.pc = "load",
                                 !.buffer = calibration_handler.current_phase]
               ELSE gaze_idle
    /\ UNCHANGED <<ctrl_vars, handler_vars, file_vars, workers, obs_vars>>

\* CalibrationDataHandler.log_gaze_data, the read of self.<phase>_data
log_gaze_data_load ==
    /\ gaze.pc = "load"
    /\ gaze' = [gaze EXCEPT !.pc = "append", !.stale = FALSE]
    /\ UNCHANGED <<ctrl_vars, handler_vars, file_vars, workers, obs_vars>>

\* The list the gaze thread appends to, with the sample appended.
appended(h, g) ==
    CASE g.buffer = "starting_rest" -> [h EXCEPT !.starting_rest_data = Append(@, g.sample)]
      [] g.buffer = "focus" -> [h EXCEPT !.focus_data = Append(@, g.sample)]
      [] g.buffer = "ending_rest" -> [h EXCEPT !.ending_rest_data = Append(@, g.sample)]
      [] OTHER -> h

\* CalibrationDataHandler.log_gaze_data, list.append
log_gaze_data_append ==
    /\ gaze.pc = "append"
    /\ calibration_handler' = IF gaze.stale THEN calibration_handler
                              ELSE appended(calibration_handler, gaze)
    /\ gaze' = gaze_idle
    /\ UNCHANGED <<ctrl_vars, eeg_handler, eeg_device, tobii, file_vars, workers,
                   obs_vars>>

\* GNautilusDevice._stream_worker at the head of its loop: the thread ends when its
\* device is not streaming; otherwise GetData yields a scan of `channels` channels
\* and the callback, BCIController._on_eeg_sample, tests eeg_handler and
\* calibration_active.
stream_worker_poll(w, channels) ==
    /\ workers[w].pc = "poll"
    /\ IF workers[w].orphan \/ ~eeg_device.is_streaming \/ eeg_device.stop_event
       THEN /\ workers' = [workers EXCEPT ![w] = worker_dead]
            /\ UNCHANGED <<next_sample, arrivals>>
       ELSE /\ next_sample <= MaxSamples
            /\ next_sample' = next_sample + 1
            /\ arrivals' = arrived(arrivals, [id |-> next_sample, t |-> next_sample, ch |-> channels])
            /\ workers' = IF eeg_handler.exists /\ calibration_active
                          THEN [workers EXCEPT ![w].pc = "cb",
                                               ![w].sample = [id |-> next_sample, t |-> next_sample,
                                                              channels |-> channels]]
                          ELSE [workers EXCEPT ![w].error_count = 0]
    /\ UNCHANGED <<ctrl_vars, handler_vars, file_vars, gaze, hardware, starts, last,
                   statuses, flushes>>

\* GNautilusDevice._stream_worker when device.GetData() raises (eeg_device.py:
\* 313-320): the error is counted, and at max_errors in a row the worker sets
\* is_streaming to False and leaves its loop.  Nothing else is told.
stream_worker_error(w) ==
    /\ workers[w].pc = "poll"
    /\ ~workers[w].orphan
    /\ eeg_device.is_streaming
    /\ ~eeg_device.stop_event
    /\ eeg_device.stream_thread = w
    /\ IF workers[w].error_count + 1 >= max_errors
       THEN /\ eeg_device' = [eeg_device EXCEPT !.is_streaming = FALSE]
            /\ workers' = [workers EXCEPT ![w] = worker_dead]
       ELSE /\ workers' = [workers EXCEPT ![w].error_count = @ + 1]
            /\ UNCHANGED eeg_device
    /\ UNCHANGED <<ctrl_vars, calibration_handler, eeg_handler, tobii, file_vars, gaze,
                   obs_vars>>

\* EEGDataHandler.add_sample called by the worker's callback
stream_worker_add(w) ==
    /\ workers[w].pc = "cb"
    /\ eeg_handler' = eh_add_sample(eeg_handler, workers[w].sample)
    /\ workers' = [workers EXCEPT ![w] =
                      IF @.orphan THEN worker_dead ELSE [worker_dead EXCEPT !.pc = "poll"]]
    /\ UNCHANGED <<ctrl_vars, calibration_handler, eeg_device, tobii, file_vars, gaze,
                   obs_vars>>

\* ------------------------------------------- the data handlers by themselves

\* The two handler classes under a caller of its own, which calls their methods
\* one at a time in any order.  The controller stands idle.  Like the
\* controller, the caller works with one handler at a time: with the pointer
\* handler until it builds an EEG handler, and with that one from then on.

handler_call(op, ret) ==
    /\ last' = [op |-> op, ret |-> ret]
    /\ statuses' = <<>>
    /\ UNCHANGED <<ctrl_vars, eeg_device, tobii, thread_vars, hardware, starts,
                   arrivals>>

\* The note of a save_circle_data the caller made.
save_note(by, res) ==
    IF res.tried = <<>> THEN <<>>
    ELSE <<[by |-> by, trial |-> Len(flushes), ok |-> res.ret, entry |-> res.tried[1],
            delivered |-> no_arrivals]>>

CalibrationDataHandler_start_circle_collection(circle_id, phase) ==
    /\ ~eeg_handler.exists
    /\ calibration_handler' =
           ch_start_circle_collection(calibration_handler, circle_id, phase)
    /\ handler_call("CalibrationDataHandler.start_circle_collection", "None")
    /\ UNCHANGED <<eeg_handler, file_vars, next_sample, flushes>>

CalibrationDataHandler_log_gaze_data(circle_id, t) ==
    /\ ~eeg_handler.exists
    /\ next_sample <= MaxFed
    /\ next_sample' = next_sample + 1
    /\ calibration_handler' =
           ch_log_gaze_data(calibration_handler, [id |-> next_sample, t |-> t], circle_id)
    /\ handler_call("CalibrationDataHandler.log_gaze_data", "None")
    /\ UNCHANGED <<eeg_handler, file_vars, flushes>>

CalibrationDataHandler_save_circle_data(io) ==
    LET res == ch_save_circle_data(calibration_handler, io)
        written == append_lines(eye_files, res.lines)
    IN  /\ ~eeg_handler.exists
        /\ Len(flushes) < MaxSaves
        /\ calibration_handler' = res.handler
        /\ eye_files' = written
        /\ synced' = [synced EXCEPT !.eye = fsynced(@, written, res)]
        /\ flushes' = flushes \o save_note("CalibrationDataHandler", res)
        /\ handler_call("CalibrationDataHandler.save_circle_data",
                        IF res.ret THEN "True" ELSE "False")
        /\ UNCHANGED <<eeg_handler, eeg_files, next_sample>>

\* EEGDataHandler(username, channel_count=EEG_CHANNEL_COUNT)
EEGDataHandler_new ==
    /\ ~eeg_handler.exists
    /\ calibration_handler = ch_init
    /\ eeg_handler' = eh_init(EEG_CHANNEL_COUNT)
    /\ handler_call("EEGDataHandler", "None")
    /\ UNCHANGED <<calibration_handler, file_vars, next_sample, flushes>>

EEGDataHandler_start_circle_collection(circle_number) ==
    /\ eeg_handler.exists
    /\ eeg_handler.lock = "free"
    /\ eeg_handler' = eh_start_circle_collection(eeg_handler, circle_number)
    /\ handler_call("EEGDataHandler.start_circle_collection", "None")
    /\ UNCHANGED <<calibration_handler, file_vars, next_sample, flushes>>

EEGDataHandler_set_phase(phase) ==
    /\ eeg_handler.exists
    /\ eeg_handler.lock = "free"
    /\ eeg_handler' = eh_set_phase(eeg_handler, phase)
    /\ handler_call("EEGDataHandler.set_phase", "None")
    /\ UNCHANGED <<calibration_handler, file_vars, next_sample, flushes>>

\* add_sample with a scan of `channels` channels; it returns None whether or not
\* it keeps the sample.
EEGDataHandler_add_sample(channels, t) ==
    /\ eeg_handler.exists
    /\ eeg_handler.lock = "free"
    /\ next_sample <= MaxFed
    /\ next_sample' = next_sample + 1
    /\ eeg_handler' =
           eh_add_sample(eeg_handler, [id |-> next_sample, t |-> t,
                                       channels |-> channels])
    /\ handler_call("EEGDataHandler.add_sample", "None")
    /\ UNCHANGED <<calibration_handler, file_vars, flushes>>

EEGDataHandler_save_circle_data(io) ==
    LET res == eh_save_circle_data(eeg_handler, io)
        written == append_lines(eeg_files, res.lines)
    IN  /\ eeg_handler.exists
        /\ Len(flushes) < MaxSaves
        /\ eeg_handler' = res.handler
        /\ eeg_files' = written
        /\ synced' = [synced EXCEPT !.eeg = fsynced(@, written, res)]
        /\ flushes' = flushes \o save_note("EEGDataHandler", res)
        /\ handler_call("EEGDataHandler.save_circle_data",
                        IF res.ret THEN "True" ELSE "False")
        /\ UNCHANGED <<calibration_handler, eye_files, next_sample>>

\* save_circle_data as far as the end of its with block.  With no circle to save
\* the call returns False there.
EEGDataHandler_save_circle_data_with ==
    /\ eeg_handler.exists
    /\ eeg_handler.lock = "free"
    /\ eeg_handler.entry = <<>>
    /\ Len(flushes) < MaxSaves
    /\ eeg_handler' = eh_save_circle_data_with(eeg_handler)
    /\ IF eeg_handler.current_circle = 0
       THEN handler_call("EEGDataHandler.save_circle_data", "False")
       ELSE UNCHANGED <<ctrl_vars, eeg_device, tobii, thread_vars, hardware, starts,
                        arrivals, last, statuses>>
    /\ UNCHANGED <<calibration_handler, file_vars, next_sample, flushes>>

\* The rest of that call: the write, and the return.
EEGDataHandler_save_circle_data_write(io) ==
    LET res == eh_save_circle_data_write(eeg_handler, io)
        written == append_lines(eeg_files, res.lines)
    IN  /\ eeg_handler.exists
        /\ eeg_handler.entry # <<>>
        /\ eeg_handler' = res.handler
        /\ eeg_files' = written
        /\ synced' = [synced EXCEPT !.eeg = fsynced(@, written, res)]
        /\ flushes' = flushes \o save_note("EEGDataHandler", res)
        /\ handler_call("EEGDataHandler.save_circle_data",
                        IF res.ret THEN "True" ELSE "False")
        /\ UNCHANGED <<calibration_handler, eye_files, next_sample>>

\* What a crash leaves of a file: the lines that os.fsync has put on stable
\* storage.
after_crash(file, count) == SubSeq(file, 1, count)

\* The machine goes down and the program is started again: the files keep what
\* was synced, and the objects are built anew.
crash ==
    /\ eye_files' = [f \in EyeFileIds |-> after_crash(eye_files[f], synced.eye[f])]
    /\ eeg_files' = [f \in EegFileIds |-> after_crash(eeg_files[f], synced.eeg[f])]
    /\ calibration_handler' = ch_init
    /\ eeg_handler' = eh_none
    /\ eeg_device' = dev_none
    /\ tobii' = [running |-> FALSE]
    /\ gaze' = gaze_idle
    /\ workers' = [w \in WorkerIds |-> worker_dead]
    /\ current_phase' = PHASE_TESTING
    /\ input_mode' = INPUT_MODE_MOUSE
    /\ allow_without_hardware' = FALSE
    /\ focus_time' = DEFAULT_FOCUS_TIME
    /\ gap_time' = DEFAULT_GAP_TIME
    /\ calibration_rounds' = DEFAULT_CALIBRATION_ROUNDS
    /\ calibration_active' = FALSE
    /\ calibration_sequence' = <<>>
    /\ current_calibration_index' = 0
    /\ elapsed' = 0
    /\ is_in_starting_rest' = FALSE
    /\ is_in_focus_phase' = FALSE
    /\ is_in_ending_rest' = FALSE
    /\ circles_completed_in_round' = 0
    /\ total_calibrations_done' = 0
    /\ eeg_current_circle_number' = 1
    /\ eeg_circle_repetition' = 0
    /\ dwell' = NoTime
    /\ tobii_currently_focused_circle' = 0
    /\ mouse_xy' = 0
    /\ last' = [op |-> "crash", ret |-> "none"]
    /\ statuses' = <<>>
    /\ arrivals' = no_arrivals
    /\ UNCHANGED <<synced, hardware, next_sample, starts, flushes>>

\* ------------------------------------------------------------ specification

Next ==
    \/ \E seq \in calibration_sequences, acq_ok \in BOOLEAN, slot \in WorkerIds :
          start_calibration(seq, acq_ok, slot)
    \/ \E io \in IoResults, joined \in BOOLEAN : stop_calibration(io, joined)
    \/ \E phase \in PHASES, io \in IoResults, joined \in BOOLEAN :
          set_phase(phase, io, joined)
    \/ \E mode \in INPUT_MODES, io \in IoResults, joined \in BOOLEAN :
          set_input_mode(mode, io, joined)
    \/ \E t \in FOCUS_TIME_OPTIONS : set_focus_time(t)
    \/ \E t \in GAP_TIME_OPTIONS : set_gap_time(t)
    \/ \E r \in 0..MaxRounds : set_calibration_rounds(r)
    \/ \E allow \in BOOLEAN : set_allow_without_hardware(allow)
    \/ \E io \in IoResults, joined \in BOOLEAN : update(io, joined)
    \/ advance_time
    \/ on_mouse_move
    \/ \E on_target \in BOOLEAN : on_gaze_update(on_target)
    \/ log_gaze_data_guard
    \/ log_gaze_data_dispatch
    \/ log_gaze_data_load
    \/ log_gaze_data_append
    \/ \E w \in WorkerIds, channels \in {EEG_CHANNEL_COUNT, EEG_CHANNEL_COUNT - 1} :
          stream_worker_poll(w, channels)
    \/ \E w \in WorkerIds : stream_worker_error(w)
    \/ \E w \in WorkerIds : stream_worker_add(w)
    \/ \E joined \in BOOLEAN : cleanup(joined)
    \/ crash

Spec == Init /\ [][Next]_vars

\* Start and stop under every setting of phase, input mode, rounds and hardware
\* switch; the clock stands still and no input source delivers.
NextStart ==
    \/ \E seq \in calibration_sequences, acq_ok \in BOOLEAN, slot \in WorkerIds :
          start_calibration(seq, acq_ok, slot)
    \/ \E io \in IoPlain : stop_calibration(io, TRUE)
    \/ \E phase \in PHASES, io \in IoPlain : set_phase(phase, io, TRUE)
    \/ \E mode \in INPUT_MODES, io \in IoPlain : set_input_mode(mode, io, TRUE)
    \/ \E r \in 0..MaxRounds : set_calibration_rounds(r)
    \/ \E allow \in BOOLEAN : set_allow_without_hardware(allow)

SpecStart == Init /\ [][NextStart]_vars

\* The same with BCIController.cleanup among the calls.
NextCleanup ==
    \/ \E seq \in calibration_sequences, acq_ok \in BOOLEAN, slot \in WorkerIds :
          start_calibration(seq, acq_ok, slot)
    \/ \E io \in IoPlain : stop_calibration(io, TRUE)
    \/ \E phase \in PHASES, io \in IoPlain : set_phase(phase, io, TRUE)
    \/ \E mode \in INPUT_MODES, io \in IoPlain : set_input_mode(mode, io, TRUE)
    \/ \E r \in 1..MaxRounds : set_calibration_rounds(r)
    \/ \E allow \in BOOLEAN : set_allow_without_hardware(allow)
    \/ cleanup(TRUE)

SpecCleanup == Init /\ [][NextCleanup]_vars

\* One calibration run driven by the mouse pointer, with the default timing, on a
\* machine without eye tracker and headset.
NextPointer ==
    \/ /\ starts.n = 0
       /\ \E seq \in calibration_sequences, acq_ok \in BOOLEAN, slot \in WorkerIds :
             start_calibration(seq, acq_ok, slot)
    \/ \E io \in IoPlain : stop_calibration(io, TRUE)
    \/ \E io \in IoPlain : set_phase(PHASE_CALIBRATION, io, TRUE)
    \/ \E r \in 1..MaxRounds : set_calibration_rounds(r)
    \/ \E io \in IoPlain : update(io, TRUE)
    \/ advance_time
    \/ on_mouse_move

InitPointer == Init /\ hardware = [tobii |-> FALSE, eeg |-> FALSE]

SpecPointer == InitPointer /\ [][NextPointer]_vars

\* Calibration runs of one round driven by the eye tracker, with the default
\* timing.
NextGaze ==
    \/ \E seq \in calibration_sequences, acq_ok \in BOOLEAN, slot \in WorkerIds :
          start_calibration(seq, acq_ok, slot)
    \/ \E io \in IoPlain : stop_calibration(io, TRUE)
    \/ \E io \in IoPlain : set_phase(PHASE_CALIBRATION, io, TRUE)
    \/ \E io \in IoPlain : set_input_mode(INPUT_MODE_TOBII, io, TRUE)
    \/ set_calibration_rounds(1)
    \/ \E io \in IoPlain : update(io, TRUE)
    \/ advance_time
    \/ \E on_target \in BOOLEAN : on_gaze_update(on_target)
    \/ log_gaze_data_guard
    \/ log_gaze_data_dispatch
    \/ log_gaze_data_load
    \/ log_gaze_data_append

InitGaze == Init /\ hardware = [tobii |-> TRUE, eeg |-> FALSE]

SpecGaze == InitGaze /\ [][NextGaze]_vars

\* One calibration run in pointer or in EEG mode on a machine with a headset,
\* under every behaviour of the file system; no input source delivers.
NextTrial ==
    \/ /\ starts.n = 0
       /\ \E seq \in calibration_sequences, acq_ok \in BOOLEAN, slot \in WorkerIds :
             start_calibration(seq, acq_ok, slot)
    \/ \E io \in IoResults : stop_calibration(io, TRUE)
    \/ \E io \in IoResults : set_phase(PHASE_CALIBRATION, io, TRUE)
    \/ \E mode \in {INPUT_MODE_MOUSE, INPUT_MODE_EEG}, io \in IoResults :
          set_input_mode(mode, io, TRUE)
    \/ \E r \in 1..MaxRounds : set_calibration_rounds(r)
    \/ \E io \in IoResults : update(io, TRUE)
    \/ advance_time

InitTrial == Init /\ hardware = [tobii |-> FALSE, eeg |-> TRUE]

SpecTrial == InitTrial /\ [][NextTrial]_vars

\* One calibration run of one round driven by the eye tracker, under every
\* offered focus time; every write succeeds.
NextDwell ==
    \/ /\ starts.n = 0
       /\ \E seq \in calibration_sequences, acq_ok \in BOOLEAN, slot \in WorkerIds :
             start_calibration(seq, acq_ok, slot)
    \/ set_phase(PHASE_CALIBRATION, "ok", TRUE)
    \/ set_input_mode(INPUT_MODE_TOBII, "ok", TRUE)
    \/ set_calibration_rounds(1)
    \/ \E t \in FOCUS_TIME_OPTIONS : set_focus_time(t)
    \/ update("ok", TRUE)
    \/ advance_time
    \/ \E on_target \in BOOLEAN : on_gaze_update(on_target)
    \/ log_gaze_data_guard
    \/ log_gaze_data_dispatch
    \/ log_gaze_data_load
    \/ log_gaze_data_append

InitDwell == Init /\ hardware = [tobii |-> TRUE, eeg |-> FALSE]

SpecDwell == InitDwell /\ [][NextDwell]_vars

\* The same run with the settings made before the start and nothing that stops
\* it afterwards, for the focus times the bounded clock can reach.  The event
\* loop keeps calling update() (root.after in _animate), the clock advances and
\* the gaze thread runs on.
NextDwellRun ==
    \/ /\ starts.n = 0
       /\ \/ \E seq \in calibration_sequences, acq_ok \in BOOLEAN, slot \in WorkerIds :
                start_calibration(seq, acq_ok, slot)
          \/ set_phase(PHASE_CALIBRATION, "ok", TRUE)
          \/ set_input_mode(INPUT_MODE_TOBII, "ok", TRUE)
          \/ set_calibration_rounds(1)
          \/ \E t \in {o \in FOCUS_TIME_OPTIONS : o <= MaxElapsed} : set_focus_time(t)
    \/ update("ok", TRUE)
    \/ advance_time
    \/ \E on_target \in BOOLEAN : on_gaze_update(on_target)
    \/ log_gaze_data_guard
    \/ log_gaze_data_dispatch
    \/ log_gaze_data_load
    \/ log_gaze_data_append

FairDwellRun ==
    /\ InitDwell
    /\ [][NextDwellRun]_vars
    /\ WF_vars(update("ok", TRUE))
    /\ WF_vars(advance_time)
    /\ WF_vars(log_gaze_data_guard)
    /\ WF_vars(log_gaze_data_dispatch)
    /\ WF_vars(log_gaze_data_load)
    /\ WF_vars(log_gaze_data_append)

\* One run of one round, by the mouse pointer or the headset, during which the
\* focus and gap times are changed; every write succeeds and no source delivers.
NextTiming ==
    \/ /\ starts.n = 0
       /\ \E seq \in calibration_sequences, acq_ok \in BOOLEAN, slot \in WorkerIds :
             start_calibration(seq, acq_ok, slot)
    \/ set_phase(PHASE_CALIBRATION, "ok", TRUE)
    \/ \E mode \in {INPUT_MODE_MOUSE, INPUT_MODE_EEG} : set_input_mode(mode, "ok", TRUE)
    \/ set_calibration_rounds(1)
    \/ \E t \in {DEFAULT_FOCUS_TIME - 2, DEFAULT_FOCUS_TIME} : set_focus_time(t)
    \/ \E t \in {DEFAULT_GAP_TIME - 2, DEFAULT_GAP_TIME} : set_gap_time(t)
    \/ stop_calibration("ok", TRUE)
    \/ update("ok", TRUE)
    \/ advance_time

InitTiming == Init /\ hardware = [tobii |-> FALSE, eeg |-> TRUE]

SpecTiming == InitTiming /\ [][NextTiming]_vars

\* One EEG calibration run of one round on a machine with a headset whose reads
\* can fail; every write succeeds.
NextSource ==
    \/ /\ starts.n = 0
       /\ \E seq \in calibration_sequences, acq_ok \in BOOLEAN, slot \in WorkerIds :
             start_calibration(seq, acq_ok, slot)
    \/ set_phase(PHASE_CALIBRATION, "ok", TRUE)
    \/ set_input_mode(INPUT_MODE_EEG, "ok", TRUE)
    \/ set_calibration_rounds(1)
    \/ update("ok", TRUE)
    \/ advance_time
    \/ \E w \in WorkerIds : stream_worker_poll(w, EEG_CHANNEL_COUNT)
    \/ \E w \in WorkerIds : stream_worker_error(w)
    \/ \E w \in WorkerIds : stream_worker_add(w)

InitSource == Init /\ hardware = [tobii |-> FALSE, eeg |-> TRUE]

SpecSource == InitSource /\ [][NextSource]_vars

\* One run of one round, by the mouse pointer or the headset, on a machine whose
\* writes and reads can fail and whose stream worker may outlive the join of
\* stop_stream.
NextControl ==
    \/ /\ starts.n = 0
       /\ \E seq \in calibration_sequences, acq_ok \in BOOLEAN, slot \in WorkerIds :
             start_calibration(seq, acq_ok, slot)
    \/ set_phase(PHASE_CALIBRATION, "ok", TRUE)
    \/ \E mode \in {INPUT_MODE_MOUSE, INPUT_MODE_EEG} : set_input_mode(mode, "ok", TRUE)
    \/ set_calibration_rounds(1)
    \/ \E io \in IoResults, joined \in BOOLEAN : stop_calibration(io, joined)
    \/ \E io \in IoResults, joined \in BOOLEAN : update(io, joined)
    \/ advance_time
    \/ \E w \in WorkerIds : stream_worker_poll(w, EEG_CHANNEL_COUNT)
    \/ \E w \in WorkerIds : stream_worker_error(w)
    \/ \E w \in WorkerIds : stream_worker_add(w)

InitControl == Init /\ hardware = [tobii |-> FALSE, eeg |-> TRUE]

SpecControl == InitControl /\ [][NextControl]_vars

\* The data handlers under a caller of their own and a machine that can crash.
NextHandlers ==
    \/ \E circle_id \in Circles, phase \in BufferNames :
          CalibrationDataHandler_start_circle_collection(circle_id, phase)
    \/ \E circle_id \in Circles, t \in Timestamps :
          CalibrationDataHandler_log_gaze_data(circle_id, t)
    \/ \E io \in IoResults : CalibrationDataHandler_save_circle_data(io)
    \/ EEGDataHandler_new
    \/ \E circle_number \in Circles : EEGDataHandler_start_circle_collection(circle_number)
    \/ \E phase \in BufferNames : EEGDataHandler_set_phase(phase)
    \/ \E channels \in {EEG_CHANNEL_COUNT, EEG_CHANNEL_COUNT - 1}, t \in Timestamps :
          EEGDataHandler_add_sample(channels, t)
    \/ \E io \in IoResults : EEGDataHandler_save_circle_data(io)
    \/ crash

InitHandlers == Init /\ hardware = [tobii |-> FALSE, eeg |-> FALSE]

\* Runs in mouse and EEG mode that are started, stopped, left to complete and
\* started again, with calibration_rounds from 0.
NextRestart ==
    \/ \E seq \in calibration_sequences, acq_ok \in BOOLEAN, slot \in WorkerIds :
          start_calibration(seq, acq_ok, slot)
    \/ stop_calibration("ok", TRUE)
    \/ set_phase(PHASE_CALIBRATION, "ok", TRUE)
    \/ \E mode \in {INPUT_MODE_MOUSE, INPUT_MODE_EEG} : set_input_mode(mode, "ok", TRUE)
    \/ \E r \in 0..1 : set_calibration_rounds(r)
    \/ update("ok", TRUE)
    \/ advance_time

InitRestart == Init /\ hardware = [tobii |-> FALSE, eeg |-> TRUE]

SpecRestart == InitRestart /\ [][NextRestart]_vars

\* EEG runs with calibration_rounds 1 or 2, chosen while no calibration is
\* active, on a file system that can fail.
NextRounds ==
    \/ \E seq \in calibration_sequences, acq_ok \in BOOLEAN, slot \in WorkerIds :
          start_calibration(seq, acq_ok, slot)
    \/ stop_calibration("ok", TRUE)
    \/ /\ starts.n = 0
       /\ set_phase(PHASE_CALIBRATION, "ok", TRUE)
    \/ /\ starts.n = 0
       /\ set_input_mode(INPUT_MODE_EEG, "ok", TRUE)
    \/ /\ ~calibration_active
       /\ \E r \in 1..MaxRounds : set_calibration_rounds(r)
    \/ \E io \in IoPlain : update(io, TRUE)
    \/ advance_time

InitRounds == Init /\ hardware = [tobii |-> FALSE, eeg |-> TRUE]

SpecRounds == InitRounds /\ [][NextRounds]_vars

\* A run in any input mode during which the phase and the input mode are
\* switched, the EEG stream worker delivering and joins timing out.
NextSwitch ==
    \/ /\ starts.n = 0
       /\ \E seq \in calibration_sequences, acq_ok \in BOOLEAN, slot \in WorkerIds :
             start_calibration(seq, acq_ok, slot)
    \/ \E phase \in PHASES, joined \in BOOLEAN : set_phase(phase, "ok", joined)
    \/ \E mode \in INPUT_MODES, joined \in BOOLEAN : set_input_mode(mode, "ok", joined)
    \/ set_calibration_rounds(1)
    \/ update("ok", TRUE)
    \/ advance_time
    \/ \E w \in WorkerIds : stream_worker_poll(w, EEG_CHANNEL_COUNT)
    \/ \E w \in WorkerIds : stream_worker_add(w)

InitSwitch == Init /\ hardware = [tobii |-> TRUE, eeg |-> TRUE]

SpecSwitch == InitSwitch /\ [][NextSwitch]_vars

\* EEG runs started and stopped again and again: every start_calibration calls
\* start_stream, every stop calls stop_stream, whose join may time out.
NextStream ==
    \/ \E seq \in calibration_sequences, acq_ok \in BOOLEAN, slot \in WorkerIds :
          start_calibration(seq, acq_ok, slot)
    \/ /\ starts.n = 0
       /\ set_phase(PHASE_CALIBRATION, "ok", TRUE)
    \/ /\ starts.n = 0
       /\ set_input_mode(INPUT_MODE_EEG, "ok", TRUE)
    \/ set_calibration_rounds(1)
    \/ \E joined \in BOOLEAN : stop_calibration("ok", joined)
    \/ update("ok", TRUE)
    \/ advance_time
    \/ \E w \in WorkerIds : stream_worker_poll(w, EEG_CHANNEL_COUNT)
    \/ \E w \in WorkerIds : stream_worker_add(w)

InitStream == Init /\ hardware = [tobii |-> FALSE, eeg |-> TRUE]

SpecStream == InitStream /\ [][NextStream]_vars

\* Eye-tracker and EEG runs whose buffers fill, with start_calibration called
\* again at any moment, with or without the hardware checks, and
\* calibration_rounds 0 or 1.
NextAgain ==
    \/ \E seq \in calibration_sequences, acq_ok \in BOOLEAN, slot \in WorkerIds :
          start_calibration(seq, acq_ok, slot)
    \/ /\ starts.n = 0
       /\ set_phase(PHASE_CALIBRATION, "ok", TRUE)
    \/ /\ starts.n = 0
       /\ \E mode \in {INPUT_MODE_TOBII, INPUT_MODE_EEG} : set_input_mode(mode, "ok", TRUE)
    \/ \E allow \in BOOLEAN : set_allow_without_hardware(allow)
    \/ \E r \in 0..1 : set_calibration_rounds(r)
    \/ update("ok", TRUE)
    \/ advance_time
    \/ \E on_target \in BOOLEAN : on_gaze_update(on_target)
    \/ log_gaze_data_guard
    \/ log_gaze_data_dispatch
    \/ log_gaze_data_load
    \/ log_gaze_data_append
    \/ \E w \in WorkerIds : stream_worker_poll(w, EEG_CHANNEL_COUNT)
    \/ \E w \in WorkerIds : stream_worker_add(w)

InitAgain == Init /\ hardware = [tobii |-> TRUE, eeg |-> TRUE]

SpecAgain == InitAgain /\ [][NextAgain]_vars

\* One run in any of the three input modes, with every producer delivering:
\* mouse events, the gaze callback and the EEG stream worker.
NextProducers ==
    \/ /\ starts.n = 0
       /\ \E seq \in calibration_sequences, acq_ok \in BOOLEAN, slot \in WorkerIds :
             start_calibration(seq, acq_ok, slot)
    \/ /\ starts.n = 0
       /\ set_phase(PHASE_CALIBRATION, "ok", TRUE)
    \/ /\ starts.n = 0
       /\ \E mode \in {INPUT_MODE_MOUSE, INPUT_MODE_TOBII, INPUT_MODE_EEG} :
             set_input_mode(mode, "ok", TRUE)
    \/ set_calibration_rounds(1)
    \/ update("ok", TRUE)
    \/ advance_time
    \/ on_mouse_move
    \/ \E on_target \in BOOLEAN : on_gaze_update(on_target)
    \/ log_gaze_data_guard
    \/ log_gaze_data_dispatch
    \/ log_gaze_data_load
    \/ log_gaze_data_append
    \/ \E w \in WorkerIds : stream_worker_poll(w, EEG_CHANNEL_COUNT)
    \/ \E w \in WorkerIds : stream_worker_add(w)

InitProducers == Init /\ hardware = [tobii |-> TRUE, eeg |-> TRUE]

SpecProducers == InitProducers /\ [][NextProducers]_vars

\* An EEGDataHandler whose save_circle_data takes two steps, the with block and
\* the write, while other threads call its other methods.
NextWrite ==
    \/ EEGDataHandler_new
    \/ \E circle_number \in Circles : EEGDataHandler_start_circle_collection(circle_number)
    \/ \E phase \in BufferNames : EEGDataHandler_set_phase(phase)
    \/ \E t \in Timestamps : EEGDataHandler_add_sample(EEG_CHANNEL_COUNT, t)
    \/ EEGDataHandler_save_circle_data_with
    \/ \E io \in IoResults : EEGDataHandler_save_circle_data_write(io)

SpecWrite == InitHandlers /\ [][NextWrite]_vars

SpecHandlers == InitHandlers /\ [][NextHandlers]_vars

\* ------------------------------------------------------------------ claims

\* A step of start_calibration, whatever sequence, acquisition result and thread
\* it is given.
start_calibration_step ==
    \E seq \in calibration_sequences, acq_ok \in BOOLEAN, slot \in WorkerIds :
        start_calibration(seq, acq_ok, slot)

\* The state start_calibration leaves when it went past its refusals: the call
\* was the event loop's last, so the settings are those of the call.
started ==
    /\ last.op = "start_calibration"
    /\ last.ret # "False"

\* Block j (from 0) of a sequence: the targets at its positions, as circle numbers.
block_targets(seq, j) ==
    {seq[j * NumCircles + i] + 1 : i \in 1..NumCircles}

\* C7: in pointer and eye-tracker mode the sequence start_calibration builds for
\* rounds >= 1 has length rounds * NumCircles, and each contiguous block of
\* NumCircles entries holds every target exactly once.
C7_shuffled_blocks ==
    (started /\ input_mode # INPUT_MODE_EEG /\ starts.rounds >= 1) =>
        /\ Len(calibration_sequence) = starts.rounds * NumCircles
        /\ \A j \in 0..(starts.rounds - 1) :
              block_targets(calibration_sequence, j) = Circles

C7_witness ==
    /\ started
    /\ input_mode = INPUT_MODE_TOBII
    /\ starts.rounds = MaxRounds
    /\ Len(calibration_sequence) = MaxRounds * NumCircles

\* C8: in EEG mode the sequence start_calibration builds for rounds >= 1 has length
\* rounds * NumCircles and is target 1 rounds times, then target 2 rounds times,
\* and so on, unshuffled.
C8_eeg_sequence_in_order ==
    (started /\ input_mode = INPUT_MODE_EEG /\ starts.rounds >= 1) =>
        /\ Len(calibration_sequence) = starts.rounds * NumCircles
        /\ \A k \in 1..Len(calibration_sequence) :
              calibration_sequence[k] + 1 = ((k - 1) \div starts.rounds) + 1

C8_witness ==
    /\ started
    /\ input_mode = INPUT_MODE_EEG
    /\ starts.rounds = MaxRounds
    /\ Len(calibration_sequence) = MaxRounds * NumCircles

\* C9: with calibration_rounds <= 0 a start_calibration that is not refused builds
\* the empty sequence and does not start the state machine: calibration_active is
\* false after the call.
C9_no_run_without_rounds ==
    (started /\ starts.rounds <= 0) =>
        /\ calibration_sequence = <<>>
        /\ ~calibration_active

\* C10: start_calibration called outside the calibration phase returns False,
\* sends an error status and changes nothing else.
C10_refused_outside_calibration_phase ==
    [][(current_phase # PHASE_CALIBRATION /\ start_calibration_step) =>
          /\ last'.ret = "False"
          /\ statuses' = <<"error">>
          /\ UNCHANGED <<ctrl_vars, handler_vars, file_vars, thread_vars>>]_vars

C10_witness ==
    /\ last = [op |-> "start_calibration", ret |-> "False"]
    /\ statuses = <<"error">>
    /\ current_phase # PHASE_CALIBRATION

\* A step of stop_calibration, whether or not the write and the join succeed.
stop_calibration_step ==
    \E io \in IoResults, joined \in BOOLEAN : stop_calibration(io, joined)

\* A trial is in progress: the run is active in one of its three phases.
trial_in_progress ==
    /\ calibration_active
    /\ is_in_starting_rest \/ is_in_focus_phase \/ is_in_ending_rest

\* C1: stop_calibration called while a trial is in progress appends no line for
\* the interrupted trial (the persisted lines are those of before) and leaves
\* calibration_active false.
C1_stop_discards_partial_trial ==
    [][(trial_in_progress /\ stop_calibration_step) =>
          /\ ~calibration_active'
          /\ UNCHANGED file_vars]_vars

\* The lines of the files f, f + 1, ... one file after the other.
RECURSIVE lines_from(_, _)
lines_from(files, f) ==
    IF f \notin DOMAIN files THEN <<>>
    ELSE files[f] \o lines_from(files, f + 1)

\* The run has ended by itself: the tick that saved the last trial was the event
\* loop's last handler.
completed ==
    /\ last.op = "update"
    /\ statuses = <<"success", "completion">>

\* C3: a pointer run of rounds >= 1 that ends by itself, every write having
\* succeeded, has appended rounds * NumCircles lines; the k-th line's circle is
\* calibration_sequence[k] + 1, and the circles of each group of NumCircles lines
\* are all the circles.
C3_pointer_run_lines ==
    (/\ completed
     /\ input_mode = INPUT_MODE_MOUSE
     /\ starts.rounds >= 1
     /\ \A i \in 1..Len(flushes) : flushes[i].ok) =>
        /\ Len(flushes) = starts.rounds * NumCircles
        /\ lines_from(eye_files, 1) = [k \in 1..Len(flushes) |-> flushes[k].entry]
        /\ \A k \in 1..Len(flushes) :
              flushes[k].entry.circle = calibration_sequence[k] + 1
        /\ \A j \in 0..(starts.rounds - 1) :
              {flushes[j * NumCircles + i].entry.circle : i \in 1..NumCircles} = Circles

C3_witness ==
    /\ completed
    /\ input_mode = INPUT_MODE_MOUSE
    /\ starts.rounds = MaxRounds
    /\ \A i \in 1..Len(flushes) : flushes[i].ok
    /\ Len(lines_from(eye_files, 1)) = MaxRounds * NumCircles

sample_ids(samples) == [i \in 1..Len(samples) |-> samples[i].id]

\* The delivered samples without the EEG samples of the wrong channel count.
well_shaped(samples) ==
    SelectSeq(samples, LAMBDA x : "ch" \in DOMAIN x => x.ch = eeg_handler.channel_count)

\* C4: the record saved for a completed trial holds in starting_rest, focus and
\* ending_rest exactly the samples the input source delivered while the run was in
\* that phase of the trial, EEG samples of the wrong channel count left out.
C4_record_holds_delivered_samples ==
    \A i \in 1..Len(flushes) :
        flushes[i].by = "update" =>
            /\ sample_ids(flushes[i].entry.starting_rest) =
                  sample_ids(well_shaped(flushes[i].delivered.starting_rest))
            /\ sample_ids(flushes[i].entry.focus) =
                  sample_ids(well_shaped(flushes[i].delivered.focus))
            /\ sample_ids(flushes[i].entry.ending_rest) =
                  sample_ids(well_shaped(flushes[i].delivered.ending_rest))

\* The three phase buffers of a data handler.
buffers_of(h) == <<h.starting_rest_data, h.focus_data, h.ending_rest_data>>

buffers_empty(h) == buffers_of(h) = <<<<>>, <<>>, <<>>>>

holds_sample(h, sample_id) ==
    \E b \in 1..3 : \E i \in 1..Len(buffers_of(h)[b]) : buffers_of(h)[b][i].id = sample_id

\* C2: once stop_calibration has returned and until the next start_calibration,
\* no step of any thread makes a phase buffer of either handler longer.
C2_no_append_after_stop ==
    [][(last.op = "stop_calibration" /\ ~calibration_active) =>
          \A b \in 1..3 :
              /\ Len(buffers_of(calibration_handler')[b]) <=
                    Len(buffers_of(calibration_handler)[b])
              /\ Len(buffers_of(eeg_handler')[b]) <= Len(buffers_of(eeg_handler)[b])]_vars

\* C5: a handler that has flushed and is not yet accepting samples for a next
\* trial (its phase is None) has three empty buffers.
C5_buffers_empty_between_trials ==
    /\ calibration_handler.current_phase = "none" => buffers_empty(calibration_handler)
    /\ eeg_handler.current_phase = "none" => buffers_empty(eeg_handler)

in_record(notes, sample_id) ==
    \E n \in 1..Len(notes) :
        \E b \in {"starting_rest", "focus", "ending_rest"} :
            \E i \in 1..Len(notes[n].entry[b]) : notes[n].entry[b][i].id = sample_id

\* C6: in a run that has flushed, a gaze sample that log_gaze_data accepted is,
\* when the call has appended it, in one place: in a record a flush produced or in
\* the handler's buffers, from where the next flush takes it.
C6_accepted_sample_is_kept ==
    [][(log_gaze_data_append /\ flushes # <<>>) =>
          \/ holds_sample(calibration_handler', gaze.sample.id)
          \/ in_record(flushes', gaze.sample.id)]_vars

\* A step of update(), whatever the file system and the join do.
update_step ==
    \E io \in IoResults, joined \in BOOLEAN : update(io, joined)

\* The tick that ends an ending rest: it flushes the trial.
flush_tick ==
    /\ calibration_active
    /\ ~is_in_starting_rest
    /\ ~is_in_focus_phase
    /\ is_in_ending_rest
    /\ elapsed >= gap_time

\* The flush of this step failed: save_circle_data built an entry and returned
\* False.
flush_failed ==
    /\ Len(flushes') = Len(flushes) + 1
    /\ ~flushes'[Len(flushes')].ok

some_flush_failed == \E i \in 1..Len(flushes) : ~flushes[i].ok

\* The trial file of the handler in use.
trial_file(files, entry) == files[entry.calibration_index]

mode_files == IF input_mode = INPUT_MODE_EEG THEN eeg_files ELSE eye_files

\* C11: the tick whose flush fails with an I/O error still advances the state
\* machine (the trial index goes up by one and the next starting rest is entered,
\* or the run ends after the last trial), and in a run with a failed flush a later
\* flush that the file system lets through appends its line.
C11_failed_flush_does_not_stop_run ==
    /\ [][(flush_tick /\ update_step /\ flush_failed) =>
             /\ current_calibration_index' = current_calibration_index + 1
             /\ IF current_calibration_index + 1 >= Len(calibration_sequence)
                THEN ~calibration_active'
                ELSE /\ calibration_active'
                     /\ is_in_starting_rest'
                     /\ ~is_in_focus_phase'
                     /\ ~is_in_ending_rest']_vars
    /\ [][(flush_tick /\ some_flush_failed /\ update("ok", TRUE)) =>
             /\ Len(flushes') = Len(flushes) + 1
             /\ flushes'[Len(flushes')].ok
             /\ trial_file(mode_files', flushes'[Len(flushes')].entry) =
                   Append(trial_file(mode_files, flushes'[Len(flushes')].entry),
                          flushes'[Len(flushes')].entry)]_vars

C11_witness ==
    /\ completed
    /\ input_mode = INPUT_MODE_EEG
    /\ Len(flushes) = NumCircles
    /\ ~flushes[1].ok
    /\ flushes[2].ok
    /\ current_calibration_index = 2
    /\ eeg_files[2] = <<flushes[2].entry>>

\* C12: the tick on which a trial flush fails passes a status that reports the
\* failure (of level error or warning) to status_callback; the next trial begins
\* on that same tick.
C12_failed_flush_is_reported ==
    [][(flush_tick /\ update_step /\ flush_failed) =>
          \E i \in 1..Len(statuses') : statuses'[i] \in {"error", "warning"}]_vars

\* The identities of the samples of an entry.
entry_ids(entry) ==
    {entry[b][i].id : <<b, i>> \in
        {bi \in BufferNames \X (1..MaxFed) : bi[2] <= Len(entry[bi[1]])}}

IoErrors == IoResults \ {"ok"}

\* C13: a save_circle_data of either handler that has a trial to save and meets
\* an I/O error returns False (nothing is raised) and leaves the buffers empty;
\* the samples of a trial whose save failed are never again in a handler's
\* buffers nor in the entry of a later save.
C13_failed_save_returns_false_and_drops_trial ==
    /\ [][\A io \in IoErrors :
             /\ (calibration_handler.current_circle # 0
                    /\ CalibrationDataHandler_save_circle_data(io)) =>
                   /\ last'.ret = "False"
                   /\ buffers_empty(calibration_handler')
             /\ (eeg_handler.current_circle # 0
                    /\ EEGDataHandler_save_circle_data(io)) =>
                   /\ last'.ret = "False"
                   /\ buffers_empty(eeg_handler')]_vars
    /\ [](\A i \in 1..Len(flushes) :
             ~flushes[i].ok =>
                \A id \in entry_ids(flushes[i].entry) :
                   /\ ~holds_sample(calibration_handler, id)
                   /\ ~holds_sample(eeg_handler, id)
                   /\ \A j \in (i + 1)..Len(flushes) :
                         id \notin entry_ids(flushes[j].entry))

C13_witness ==
    /\ Len(flushes) = 2
    /\ flushes[1].by = "EEGDataHandler"
    /\ ~flushes[1].ok
    /\ entry_ids(flushes[1].entry) = {1}
    /\ flushes[2].by = "EEGDataHandler"
    /\ flushes[2].ok
    /\ entry_ids(flushes[2].entry) = {2}
    /\ eeg_files[1] = <<flushes[2].entry>>
    /\ last = [op |-> "EEGDataHandler.save_circle_data", ret |-> "True"]

\* How many times x occurs in seq.
occurrences(seq, x) == Cardinality({i \in 1..Len(seq) : seq[i] = x})

\* The saves of one handler that returned True.
saved_entries(by) ==
    SelectSeq(flushes, LAMBDA note : note.by = by /\ note.ok)

handler_file(by, entry) ==
    IF by = "EEGDataHandler" THEN eeg_files[entry.calibration_index]
    ELSE eye_files[entry.calibration_index]

handler_synced(by, entry) ==
    IF by = "EEGDataHandler" THEN synced.eeg[entry.calibration_index]
    ELSE synced.eye[entry.calibration_index]

\* C14: when save_circle_data returns True, the trial's line is the last line of
\* its file and the whole file is on stable storage; and at every moment, crashes
\* included, each trial whose save returned True is in its file as many times as
\* it was saved.
C14_saved_trial_survives_crash ==
    /\ [][\A io \in IoResults :
             /\ (CalibrationDataHandler_save_circle_data(io) /\ last'.ret = "True") =>
                   /\ eye_files'[calibration_handler.current_calibration_index] =
                         Append(eye_files[calibration_handler.current_calibration_index],
                                ch_entry(calibration_handler))
                   /\ synced'.eye[calibration_handler.current_calibration_index] =
                         Len(eye_files'[calibration_handler.current_calibration_index])
             /\ (EEGDataHandler_save_circle_data(io) /\ last'.ret = "True") =>
                   /\ eeg_files'[eeg_handler.current_calibration_index] =
                         Append(eeg_files[eeg_handler.current_calibration_index],
                                eh_entry(eeg_handler))
                   /\ synced'.eeg[eeg_handler.current_calibration_index] =
                         Len(eeg_files'[eeg_handler.current_calibration_index])]_vars
    /\ [](\A i \in 1..Len(flushes) :
             flushes[i].ok =>
                occurrences(handler_file(flushes[i].by, flushes[i].entry),
                            flushes[i].entry)
                   >= Len(SelectSeq(saved_entries(flushes[i].by),
                                    LAMBDA note : note.entry = flushes[i].entry)))

\* A save that returned True, then one whose os.fsync failed, then a crash: the
\* first line is in the file and the second is lost.
C14_witness ==
    /\ last.op = "crash"
    /\ Len(flushes) = 2
    /\ flushes[1].by = "CalibrationDataHandler"
    /\ flushes[1].ok
    /\ entry_ids(flushes[1].entry) = {1}
    /\ ~flushes[2].ok
    /\ entry_ids(flushes[2].entry) = {2}
    /\ eye_files[1] = <<flushes[1].entry>>

starts_with(file, lines) ==
    /\ Len(lines) <= Len(file)
    /\ SubSeq(file, 1, Len(lines)) = lines

\* C15: whatever the operation (start, stop, tick with or without a flush, a
\* change of phase, mode or rounds), the lines a trial file held before it are an
\* unchanged prefix of the file after it.
C15_trial_files_are_append_only ==
    [][/\ \A f \in EyeFileIds : starts_with(eye_files'[f], eye_files[f])
       /\ \A f \in EegFileIds : starts_with(eeg_files'[f], eeg_files[f])]_vars

\* A run stopped by stop_calibration after its file has taken a second line.
C15_witness ==
    /\ last.op = "stop_calibration"
    /\ ~calibration_active
    /\ starts.n = 1
    /\ \E f \in EyeFileIds : Len(eye_files[f]) >= 2

\* C16: a save_circle_data that follows at once on a save_circle_data of the
\* same handler that returned True, the file system letting both through, appends
\* one more line to the file the first one appended to; this for the pointer
\* handler and for the EEG handler.
C16_second_save_appends_second_line ==
    /\ [][(last = [op |-> "CalibrationDataHandler.save_circle_data", ret |-> "True"]
             /\ CalibrationDataHandler_save_circle_data("ok")) =>
            Len(eye_files'[calibration_handler.current_calibration_index]) =
               Len(eye_files[calibration_handler.current_calibration_index]) + 1]_vars
    /\ [][(last = [op |-> "EEGDataHandler.save_circle_data", ret |-> "True"]
             /\ EEGDataHandler_save_circle_data("ok")) =>
            Len(eeg_files'[eeg_handler.current_calibration_index]) =
               Len(eeg_files[eeg_handler.current_calibration_index]) + 1]_vars

\* What validate_jsonl_file asks of an entry: each sample has channel_count
\* channels.
channels_valid(entry) ==
    \A b \in BufferNames :
        \A i \in 1..Len(entry[b]) : entry[b][i].ch = entry.channel_count

eeg_collecting == eeg_handler.current_circle # 0 /\ eeg_handler.current_phase # "none"

\* C17: add_sample with a sample whose channel count is not the handler's returns
\* without raising and leaves the handler (buffers, circle, phase) as it was; a
\* sample of channel_count channels given to a collecting handler is appended to
\* the buffer of the current phase, whatever was dropped before; and every sample
\* of every line of the EEG files has channel_count channels.
C17_mismatched_sample_is_dropped ==
    /\ [][\A channels \in {EEG_CHANNEL_COUNT, EEG_CHANNEL_COUNT - 1}, t \in Timestamps :
             EEGDataHandler_add_sample(channels, t) =>
                /\ last'.ret = "None"
                /\ channels # eeg_handler.channel_count => eeg_handler' = eeg_handler
                /\ (channels = eeg_handler.channel_count /\ eeg_collecting) =>
                      /\ holds_sample(eeg_handler', next_sample)
                      /\ eeg_handler'.current_circle = eeg_handler.current_circle
                      /\ eeg_handler'.current_phase = eeg_handler.current_phase]_vars
    /\ [](\A f \in EegFileIds :
             \A i \in 1..Len(eeg_files[f]) : channels_valid(eeg_files[f][i]))

\* A collecting handler that holds sample 1 has just been given sample 2, of 31
\* channels: it still holds sample 1 alone.
C17_witness ==
    /\ last.op = "EEGDataHandler.add_sample"
    /\ next_sample = 3
    /\ eeg_collecting
    /\ holds_sample(eeg_handler, 1)
    /\ ~holds_sample(eeg_handler, 2)

\* The input mode's hardware cannot be used: no connected EEG device, or no eye
\* tracker.
hardware_unavailable ==
    \/ input_mode = INPUT_MODE_EEG /\ ~(eeg_device.exists /\ eeg_device.connected)
    \/ input_mode = INPUT_MODE_TOBII /\ ~hardware.tobii

\* C18: a start_calibration made in eye-tracker or EEG mode while the mode's
\* hardware is unavailable and allow_without_hardware is off returns False, sends
\* one status, of level error, and changes nothing of the run: calibration_active
\* and the phase flags are as before.
C18_start_refused_without_hardware ==
    [][(start_calibration_step /\ hardware_unavailable /\ ~allow_without_hardware) =>
          /\ last' = [op |-> "start_calibration", ret |-> "False"]
          /\ statuses' = <<"error">>
          /\ UNCHANGED run_vars
          /\ ~calibration_active => ~calibration_active']_vars

\* A refused start in the calibration phase, EEG mode, with the device
\* disconnected.
C18_witness ==
    /\ last = [op |-> "start_calibration", ret |-> "False"]
    /\ current_phase = PHASE_CALIBRATION
    /\ input_mode = INPUT_MODE_EEG
    /\ eeg_device.exists
    /\ ~eeg_device.connected
    /\ ~allow_without_hardware
    /\ ~calibration_active

\* The hardware of a mode is missing on this machine.
mode_hardware_missing(mode) ==
    \/ mode = INPUT_MODE_TOBII /\ ~hardware.tobii
    \/ mode = INPUT_MODE_EEG /\ ~hardware.eeg

\* C19: when set_input_mode has just been called with the eye-tracker or EEG
\* mode on a machine without that hardware, and allow_without_hardware is on, a
\* start_calibration in the calibration phase starts a run whose input mode is
\* the mode that was selected.
C19_override_starts_in_selected_mode ==
    [][(/\ last.op = "set_input_mode"
        /\ last.mode \in {INPUT_MODE_TOBII, INPUT_MODE_EEG}
        /\ mode_hardware_missing(last.mode)
        /\ allow_without_hardware
        /\ current_phase = PHASE_CALIBRATION
        /\ start_calibration_step) =>
          /\ calibration_active'
          /\ input_mode' = last.mode]_vars

\* The stream worker has left its loop by itself: is_streaming is False though
\* stop_stream was not called on the stream it had started.
source_gave_up ==
    /\ eeg_device.exists
    /\ eeg_device.stream_thread # 0
    /\ ~eeg_device.is_streaming
    /\ ~eeg_device.stop_event

\* C20: a calibration whose EEG stream worker has given up after repeated read
\* errors is not carried on to its end as though the source were delivering: the
\* tick that ends it sends a status of level error.
C20_dead_source_stops_run_with_error ==
    [][(/\ input_mode = INPUT_MODE_EEG
        /\ source_gave_up
        /\ calibration_active
        /\ update_step
        /\ ~calibration_active') =>
          \E i \in 1..Len(statuses') : statuses'[i] = "error"]_vars

\* C21: whenever a calibration is active (a flush may have failed, the last tick
\* may have raised, the stream worker may have given up) the next tick is
\* scheduled and can run, and stop_calibration can be called; every call of
\* stop_calibration on an active calibration returns, without raising, with
\* calibration_active false, also when the join of the stream worker timed out.
C21_session_stays_controllable ==
    /\ [](calibration_active => (ENABLED update_step /\ ENABLED stop_calibration_step))
    /\ [][(calibration_active /\ stop_calibration_step) =>
             /\ ~calibration_active'
             /\ last' = [op |-> "stop_calibration", ret |-> "None"]]_vars

\* An EEG run whose first tick after the first trial raised, stopped by a
\* stop_calibration whose join timed out: the worker is still alive.
C21_witness ==
    /\ last.op = "stop_calibration"
    /\ ~calibration_active
    /\ input_mode = INPUT_MODE_EEG
    /\ Len(flushes) = 1
    /\ ~flushes[1].ok
    /\ eeg_device.stream_thread # 0
    /\ workers[eeg_device.stream_thread].pc # "dead"

\* C23: in eye-tracker mode every tick made in the focus phase when the phase has
\* lasted focus_time or longer leaves the focus phase for the ending rest,
\* whatever the dwell timer holds and whatever focus_time is.
C23_focus_ends_by_focus_time_alone ==
    [][(/\ input_mode = INPUT_MODE_TOBII
        /\ calibration_active
        /\ ~is_in_starting_rest
        /\ is_in_focus_phase
        /\ elapsed >= focus_time
        /\ update_step) =>
          /\ ~is_in_focus_phase'
          /\ is_in_ending_rest']_vars

\* C22: with ticks that keep coming, a clock that advances and nothing that
\* stops the run, a calibration that is active with a sequence that is not empty
\* leads to the state in which the run has ended by itself: calibration_active is
\* false and the completion has been notified.
C22_started_run_completes ==
    (calibration_active /\ calibration_sequence # <<>>) ~> (~calibration_active /\ completed)

\* C24: in EEG mode the calibration index that names the file does not change on
\* a tick that ends a trial inside a pass through the targets, that is, when the
\* number of trials done is not a multiple of the number of targets.
C24_eeg_file_index_constant_inside_pass ==
    [][(/\ input_mode = INPUT_MODE_EEG
        /\ flush_tick
        /\ update_step
        /\ (current_calibration_index + 1) % NumCircles # 0) =>
          eeg_handler'.current_calibration_index =
             eeg_handler.current_calibration_index]_vars

\* The gap_time and focus_time a record carries in its meta, if any.
meta_timing(entry) ==
    IF {"gap_time", "focus_time"} \subseteq DOMAIN entry
    THEN <<entry.gap_time, entry.focus_time>>
    ELSE <<>>

\* A record was built on this step.
flushed == Len(flushes') = Len(flushes) + 1

\* C25: every record built by the tick that ends a trial, in whatever input
\* mode, carries the gap_time and focus_time the controller holds at that moment.
C25_record_carries_timing_at_flush ==
    [][(flush_tick /\ update_step /\ flushed) =>
          meta_timing(flushes'[Len(flushes')].entry) = <<gap_time, focus_time>>]_vars

\* What one step may do to a phase buffer: leave it, empty it, or put the sample
\* it was given behind the samples the buffer holds.
kept_in_order(old, new) ==
    \/ new = old
    \/ new = <<>>
    \/ /\ Len(new) = Len(old) + 1
       /\ SubSeq(new, 1, Len(old)) = old
       /\ new[Len(new)].id = next_sample

\* Samples are numbered as they arrive.
in_arrival_order(samples) ==
    \A i, j \in 1..Len(samples) : i < j => samples[i].id < samples[j].id

phase_lists(entry) == <<entry.starting_rest, entry.focus, entry.ending_rest>>

\* C26: every step leaves each phase buffer of each handler as it was, empties
\* it, or adds the sample given at its end; the record a save builds holds the
\* three buffers as they were; and so each phase list of each line of each file
\* is in the order of arrival, whatever time stamps the samples carry.
C26_phase_lists_in_arrival_order ==
    /\ [][\A b \in 1..3 :
             /\ kept_in_order(buffers_of(calibration_handler)[b],
                              buffers_of(calibration_handler')[b])
             /\ kept_in_order(buffers_of(eeg_handler)[b], buffers_of(eeg_handler')[b])]_vars
    /\ [][flushed =>
             LET note == flushes'[Len(flushes')]
             IN  phase_lists(note.entry) =
                    buffers_of(IF note.by = "EEGDataHandler" THEN eeg_handler
                               ELSE calibration_handler)]_vars
    /\ [](\A f \in EegFileIds : \A i \in 1..Len(eeg_files[f]) :
             \A b \in 1..3 : in_arrival_order(phase_lists(eeg_files[f][i])[b]))
    /\ [](\A f \in EyeFileIds : \A i \in 1..Len(eye_files[f]) :
             \A b \in 1..3 : in_arrival_order(phase_lists(eye_files[f][i])[b]))

\* A line of an EEG file whose focus list holds two samples, the first to arrive
\* with the later time stamp.
C26_witness ==
    \E f \in EegFileIds : \E i \in 1..Len(eeg_files[f]) :
        LET focus == eeg_files[f][i].focus
        IN  /\ Len(focus) = 2
            /\ focus[1].id < focus[2].id
            /\ focus[1].t > focus[2].t

\* A call of save_circle_data is between its with block and its return.
writing == eeg_handler.entry # <<>>

\* C27: while save_circle_data writes, the lock is free and add_sample, given a
\* sample, can run; an add_sample that runs then returns None and leaves the
\* entry being written as it is; and the write puts that entry in the file,
\* the two steps together doing what the whole call does.
C27_write_outside_lock ==
    /\ [](writing => eeg_handler.lock = "free")
    /\ [](writing /\ next_sample <= MaxFed =>
             \A t \in Timestamps : ENABLED EEGDataHandler_add_sample(EEG_CHANNEL_COUNT, t))
    /\ [][\A t \in Timestamps :
             (writing /\ EEGDataHandler_add_sample(EEG_CHANNEL_COUNT, t)) =>
                /\ last' = [op |-> "EEGDataHandler.add_sample", ret |-> "None"]
                /\ eeg_handler'.entry = eeg_handler.entry]_vars
    /\ [][\A io \in IoResults :
             EEGDataHandler_save_circle_data_with =>
                LET whole == eh_save_circle_data(eeg_handler, io)
                    parts == eh_save_circle_data_write(eeg_handler', io)
                IN  eeg_handler.current_circle # 0 =>
                       /\ parts.tried = whole.tried
                       /\ parts.lines = whole.lines
                       /\ parts.ret = whole.ret
                       /\ parts.handler = whole.handler]_vars

\* While an entry waits to be written, a circle was started, a phase set and a
\* sample added: add_sample has returned and the sample is in a buffer.
C27_witness ==
    /\ writing
    /\ last = [op |-> "EEGDataHandler.add_sample", ret |-> "None"]
    /\ ~buffers_empty(eeg_handler)

\* One tick's change of phase is allowed: none, or the next phase of the trial
\* with the time its threshold asks for.  The ending rest gives way to the
\* starting rest of the next trial or to the end of the run.
phase_step(p, q) ==
    \/ q = p
    \/ p = "starting_rest" /\ q = "focus" /\ elapsed >= gap_time
    \/ p = "focus" /\ q = "ending_rest" /\ elapsed >= focus_time
    \/ p = "ending_rest" /\ q \in {"starting_rest", "none"} /\ elapsed >= gap_time

phase_flags == <<is_in_starting_rest, is_in_focus_phase, is_in_ending_rest>>

\* C28: a tick of an active calibration changes the phase by at most one step of
\* starting rest, focus, ending rest, and only when the phase has lasted gap_time
\* (the rests) or focus_time (the focus); the trial changes only on the tick that
\* ends an ending rest; an active run is in exactly one phase; and a step that
\* is neither a tick nor a start_calibration leaves the phase or ends the run.
C28_phases_in_order_on_time ==
    /\ [][(calibration_active /\ update_step) =>
             /\ phase_step(controller_phase, controller_phase')
             /\ current_calibration_index' # current_calibration_index =>
                   controller_phase = "ending_rest" /\ elapsed >= gap_time]_vars
    /\ [](calibration_active =>
             phase_flags \in {<<TRUE, FALSE, FALSE>>, <<FALSE, TRUE, FALSE>>,
                              <<FALSE, FALSE, TRUE>>})
    /\ [][(~update_step /\ ~start_calibration_step) =>
             controller_phase' \in {controller_phase, "none"}]_vars

\* A tick has just taken a starting rest that had lasted as long as a gap and
\* a focus together to the focus phase, whose time starts anew.
C28_witness ==
    /\ last.op = "update"
    /\ controller_phase = "focus"
    /\ elapsed = 0
    /\ gap_time + focus_time <= MaxElapsed

\* The handler the input mode collects with routes to the controller's phase and
\* holds the circle of the target of the trial.
routing_matches ==
    LET h == IF input_mode = INPUT_MODE_EEG THEN eeg_handler ELSE calibration_handler
    IN  /\ h.current_phase = controller_phase
        /\ h.current_circle = current_target + 1

\* C29: after every tick that leaves the calibration active, the active
\* handler's phase is the controller's phase and its circle is that of the
\* current target.
C29_routing_follows_phase ==
    [][(calibration_active /\ update_step /\ calibration_active') => routing_matches']_vars

\* The tick that ends the ending rest of the last trial of the sequence.
last_tick ==
    /\ flush_tick
    /\ current_calibration_index + 1 = Len(calibration_sequence)
    /\ update_step

\* completion_callback is among the calls the event loop's last handler made.
notified(calls) == \E i \in 1..Len(calls) : calls[i] = "completion"

\* C30: the tick that ends the ending rest of the last trial builds the record
\* of that trial, leaves calibration_active false and the EEG device not
\* streaming, and reports success and calls completion_callback, once; no other
\* handler of the event loop calls completion_callback (the steps of the other
\* threads leave the event loop's notes as they are), stop_calibration least of
\* all; and when the calibration is not active a tick has nothing to do.
C30_last_tick_completes_once ==
    /\ [][last_tick =>
             /\ flushed
             /\ flushes'[Len(flushes')].by = "update"
             /\ flushes'[Len(flushes')].trial = current_calibration_index
             /\ ~calibration_active'
             /\ input_mode = INPUT_MODE_EEG => ~eeg_device'.is_streaming
             /\ statuses' = <<"success", "completion">>]_vars
    /\ [][(notified(statuses') /\ ~last_tick) => UNCHANGED <<statuses, last>>]_vars
    /\ [][stop_calibration_step => ~notified(statuses')]_vars
    /\ [](~calibration_active => ~ENABLED update_step)

\* An EEG run of two trials has ended by itself: two records built by ticks,
\* the device stopped, the completion notified.
C30_witness ==
    /\ completed
    /\ ~calibration_active
    /\ input_mode = INPUT_MODE_EEG
    /\ eeg_device.exists
    /\ ~eeg_device.is_streaming
    /\ Len(flushes) = Len(calibration_sequence)
    /\ \A n \in 1..Len(flushes) : flushes[n].by = "update"

\* A tick made now would end the phase in progress (controller.py:485, 531, 555).
tick_ends_phase ==
    IF is_in_starting_rest THEN elapsed >= gap_time
    ELSE IF is_in_focus_phase THEN elapsed >= focus_time
    ELSE is_in_ending_rest /\ elapsed >= gap_time

timing_set == \E t \in FOCUS_TIME_OPTIONS \cup GAP_TIME_OPTIONS : set_focus_time(t) \/ set_gap_time(t)

\* C31: a set_focus_time or set_gap_time made while a phase of a trial is in
\* progress leaves unchanged whether a tick made at that moment ends the phase.
C31_phase_duration_fixed_at_entry ==
    [][(trial_in_progress /\ timing_set) => (tick_ends_phase' <=> tick_ends_phase)]_vars

\* What drives the protocol: the run flag, the phase flags, the trial, the time
\* since the phase was entered and the sequence.
protocol_vars ==
    <<calibration_active, is_in_starting_rest, is_in_focus_phase, is_in_ending_rest,
      current_calibration_index, elapsed, calibration_sequence>>

\* A step of a producer's callback: a mouse event, the gaze callback with the
\* steps of its log_gaze_data, the stream worker's delivery.
producer_step ==
    \/ on_mouse_move
    \/ \E on_target \in BOOLEAN : on_gaze_update(on_target)
    \/ log_gaze_data_guard
    \/ log_gaze_data_dispatch
    \/ log_gaze_data_load
    \/ log_gaze_data_append
    \/ \E w \in WorkerIds : stream_worker_poll(w, EEG_CHANNEL_COUNT) \/ stream_worker_add(w)

\* C32: no step of a producer's callback changes calibration_active, a phase
\* flag, the trial index, the time since the phase was entered or the sequence.
C32_producers_leave_protocol_alone ==
    [][producer_step => UNCHANGED protocol_vars]_vars

\* In the focus phase of an active run the last sample the producer had was
\* delivered and is in the active handler's buffers.
C32_witness ==
    /\ calibration_active
    /\ is_in_focus_phase
    /\ next_sample > MaxSamples
    /\ \/ ~buffers_empty(eeg_handler)
       \/ ~buffers_empty(calibration_handler)

\* C33: while calibration_active is true exactly one of is_in_starting_rest,
\* is_in_focus_phase and is_in_ending_rest is true.
C33_one_phase_while_active ==
    calibration_active =>
        Cardinality({i \in 1..3 : phase_flags[i]}) = 1

\* The second run of the controller, started after a run that went through a
\* whole block, is in its ending rest after a tick that raised.
C33_witness ==
    /\ calibration_active
    /\ starts.n = 2
    /\ total_calibrations_done >= 1
    /\ is_in_ending_rest
    /\ last = [op |-> "update", ret |-> "raised"]

\* The circles of the lines of a file, in order.
circles_of(file) == [i \in 1..Len(file) |-> file[i].circle]

\* C34: every file of the pointer and eye-tracker runs holds at most NumCircles
\* lines, and no two of its lines have the same circle.
C34_block_file_holds_one_block ==
    \A f \in EyeFileIds :
        /\ Len(eye_files[f]) <= NumCircles
        /\ \A i, j \in 1..Len(eye_files[f]) :
              i # j => circles_of(eye_files[f])[i] # circles_of(eye_files[f])[j]

\* C35: while the calibration is active the trial index is a position of the
\* sequence (0 <= index < len); and a step other than a start_calibration that
\* changes the index of an active run is the tick that ends an ending rest, and
\* adds one to it.
C35_trial_index_in_range ==
    /\ [](calibration_active =>
             /\ 0 <= current_calibration_index
             /\ current_calibration_index < Len(calibration_sequence))
    /\ [][(/\ calibration_active
           /\ ~start_calibration_step
           /\ current_calibration_index' # current_calibration_index) =>
             /\ current_calibration_index' = current_calibration_index + 1
             /\ flush_tick
             /\ update_step]_vars

\* The records of this run that were written to file k for circle k.
run_records(k) ==
    SelectSeq(flushes, LAMBDA note :
        note.ok /\ note.entry.calibration_index = k /\ note.entry.circle = k)

switch_step ==
    \E io \in IoResults, joined \in BOOLEAN :
        \/ \E mode \in INPUT_MODES : set_input_mode(mode, io, joined)
        \/ \E phase \in PHASES : set_phase(phase, io, joined)

\* After the step worker w no longer delivers for a streaming device: it has
\* ended, or it is in its last callback for a device that was dropped, or its
\* device has left streaming with the stop event set.
stream_stopped_after(w) ==
    \/ workers'[w].pc = "dead"
    \/ workers'[w].orphan
    \/ /\ eeg_device'.stream_thread = w
       /\ ~eeg_device'.is_streaming
       /\ eeg_device'.stop_event

\* C37: a set_input_mode or set_phase made while the calibration is active
\* leaves calibration_active false, and the stop it makes is that of the input
\* mode of the run: in EEG mode the worker of the streaming device is stopped
\* and the pointer handler and its files are left alone; in the other modes
\* the pointer handler's trial is ended.
C37_switch_stops_run_in_old_mode ==
    [][(calibration_active /\ switch_step) =>
          /\ ~calibration_active'
          /\ IF input_mode = INPUT_MODE_EEG
             THEN /\ (eeg_device.exists /\ eeg_device.is_streaming
                         /\ eeg_device.stream_thread # 0) =>
                        stream_stopped_after(eeg_device.stream_thread)
                  /\ UNCHANGED <<calibration_handler, eye_files>>
             ELSE /\ calibration_handler'.current_circle = 0
                  /\ calibration_handler'.current_phase = "none"]_vars

\* The input mode has just been switched from EEG to the mouse during a run
\* whose worker was in its callback: the run is stopped, the worker orphaned.
C37_witness ==
    /\ last.op = "set_input_mode"
    /\ statuses # <<>>
    /\ statuses[1] = "warning"
    /\ input_mode = INPUT_MODE_MOUSE
    /\ ~calibration_active
    /\ \E w \in WorkerIds : workers[w].orphan

\* The handler the input mode collects with.
active_handler ==
    IF input_mode = INPUT_MODE_EEG THEN eeg_handler ELSE calibration_handler

\* C38: a start_calibration made while a calibration is active writes nothing
\* to any file, and either returns False with the trial index, the phase and
\* the run flag as they were, or leaves the run active at trial 0 in the
\* starting rest with the three buffers of the active handler empty.
C38_start_while_active_restarts_clean ==
    [][(calibration_active /\ start_calibration_step) =>
          /\ UNCHANGED file_vars
          /\ \/ /\ last'.ret = "False"
                /\ UNCHANGED <<calibration_active, current_calibration_index, phase_flags>>
             \/ /\ last'.ret # "False"
                /\ calibration_active'
                /\ current_calibration_index' = 0
                /\ phase_flags' = <<TRUE, FALSE, FALSE>>
                /\ buffers_empty(active_handler')]_vars


\* A worker of the controller's device that is in its delivery loop: inside the
\* callback, or at the loop head with the loop condition true.
delivering(w) ==
    /\ ~workers[w].orphan
    /\ \/ workers[w].pc = "cb"
       \/ /\ workers[w].pc = "poll"
          /\ eeg_device.is_streaming
          /\ ~eeg_device.stop_event

\* C39: whatever the order of the start_stream and stop_stream calls, and also
\* after a stop_stream whose join timed out, at most one stream worker of the
\* device is in its delivery loop; and a start_calibration that finds the device
\* streaming starts no worker.
C39_one_stream_worker ==
    /\ [](Cardinality({w \in WorkerIds : delivering(w)}) <= 1)
    /\ [][(start_calibration_step /\ input_mode = INPUT_MODE_EEG
             /\ eeg_device.is_streaming) =>
              UNCHANGED <<workers, eeg_device>>]_vars

=============================================================================
